---------------------------- MODULE Spec2Model ----------------------------
(***************************************************************************)
(* Model of the dynamic glab MCP server (src/src/glab_mcp/server.py):      *)
(* the TTL-bounded discovery cache, the help-text parsers and the          *)
(* argument marshaller.                                                    *)
(*                                                                         *)
(* A Python str is modelled as a sequence of one-character strings, so     *)
(* that strip, startswith, split, replace and the regular expressions of   *)
(* the source are computed character by character.  A help text is held    *)
(* as the sequence of its lines, i.e. as the value of text.split("\n").    *)
(***************************************************************************)
EXTENDS Integers, Sequences, FiniteSets, TLC

(***************************************************************************)
(* Optional values: None, or Some(v) holding v.                            *)
(***************************************************************************)
None == <<>>

Some(v) == <<v>>

Val(o) == o[1]

\* str.strip() and \s: the whitespace that can occur inside one line.
Whitespace == {" ", "\t", "\r"}

UpperCase == <<"A", "B", "C", "D", "E", "F", "G", "H", "I", "J", "K", "L", "M",
               "N", "O", "P", "Q", "R", "S", "T", "U", "V", "W", "X", "Y", "Z">>

LowerCase == <<"a", "b", "c", "d", "e", "f", "g", "h", "i", "j", "k", "l", "m",
               "n", "o", "p", "q", "r", "s", "t", "u", "v", "w", "x", "y", "z">>

Digits == <<"0", "1", "2", "3", "4", "5", "6", "7", "8", "9">>

Range(s) == {s[i] : i \in 1..Len(s)}

\* \w of the re module: letters, digits and the underscore.
WordChars == Range(UpperCase) \cup Range(LowerCase) \cup Range(Digits) \cup {"_"}

(***************************************************************************)
(* String literals of the source.                                          *)
(***************************************************************************)
S_AvailableCommands ==
    <<"A", "v", "a", "i", "l", "a", "b", "l", "e", " ",
      "C", "o", "m", "m", "a", "n", "d", "s", ":">>

S_Commands == <<"C", "o", "m", "m", "a", "n", "d", "s", ":">>

S_CORE_COMMANDS == <<"C", "O", "R", "E", " ", "C", "O", "M", "M", "A", "N", "D", "S">>

S_FLAGS == <<"F", "L", "A", "G", "S">>

S_LEARN_MORE == <<"L", "E", "A", "R", "N", " ", "M", "O", "R", "E">>

S_Usage == <<"U", "s", "a", "g", "e", ":">>

S_Flags == <<"F", "l", "a", "g", "s", ":">>

S_Options == <<"O", "p", "t", "i", "o", "n", "s", ":">>

S_GlobalFlags == <<"G", "l", "o", "b", "a", "l", " ", "F", "l", "a", "g", "s", ":">>

S_Examples == <<"E", "x", "a", "m", "p", "l", "e", "s", ":">>

S_UseQuote == <<"U", "s", "e", " ", "\"">>

S_command == <<"c", "o", "m", "m", "a", "n", "d">>

S_ExecuteGlab == <<"E", "x", "e", "c", "u", "t", "e", " ", "g", "l", "a", "b", " ">>

S_glab == <<"g", "l", "a", "b", " ">>

S_help == <<"-", "-", "h", "e", "l", "p">>

S_format == <<"-", "-", "f", "o", "r", "m", "a", "t">>

(***************************************************************************)
(* str methods.                                                            *)
(***************************************************************************)
\* s.startswith(p)
StartsWith(s, p) == Len(p) <= Len(s) /\ SubSeq(s, 1, Len(p)) = p

\* s[i:] for a 1-based position i
From(s, i) == SubSeq(s, i, Len(s))

\* p in s
Contains(s, p) == \E i \in 1..(Len(s) - Len(p) + 1) : SubSeq(s, i, i + Len(p) - 1) = p

\* the number of leading characters of s that lie in set
RECURSIVE Span(_, _)
Span(s, set) ==
    IF s # <<>> /\ Head(s) \in set THEN 1 + Span(Tail(s), set) ELSE 0

RECURSIVE Reverse(_)
Reverse(s) == IF s = <<>> THEN <<>> ELSE Append(Reverse(Tail(s)), Head(s))

\* s.lstrip(), s.rstrip(), s.strip()
LStrip(s) == From(s, Span(s, Whitespace) + 1)

RStrip(s) == SubSeq(s, 1, Len(s) - Span(Reverse(s), Whitespace))

Strip(s) == RStrip(LStrip(s))

\* s.lstrip("-")
LStripDash(s) == From(s, Span(s, {"-"}) + 1)

\* s.replace(a, b) for single characters a and b
ReplaceChar(s, a, b) == [i \in 1..Len(s) |-> IF s[i] = a THEN b ELSE s[i]]

\* s.replace(p, r) for a non-empty p: every occurrence, left to right
RECURSIVE Replace(_, _, _)
Replace(s, p, r) ==
    IF s = <<>> THEN <<>>
    ELSE IF StartsWith(s, p) THEN r \o Replace(From(s, Len(p) + 1), p, r)
    ELSE <<Head(s)>> \o Replace(Tail(s), p, r)

\* s.lower()
LowerChar(c) ==
    IF \E i \in 1..Len(UpperCase) : UpperCase[i] = c
    THEN LowerCase[CHOOSE i \in 1..Len(UpperCase) : UpperCase[i] = c]
    ELSE c

Lower(s) == [i \in 1..Len(s) |-> LowerChar(s[i])]

\* s.split(":", 1)[0] when ":" occurs in s: the part before the first ":"
BeforeColon(s) == SubSeq(s, 1, Span(s, Range(s) \ {":"}))

\* s.split(): the maximal runs of non-whitespace characters
RECURSIVE SplitWords(_)
SplitWords(s) ==
    LET t == LStrip(s)
        n == Span(t, Range(t) \ Whitespace)
    IN  IF t = <<>> THEN <<>>
        ELSE <<SubSeq(t, 1, n)>> \o SplitWords(From(t, n + 1))

\* " ".join(words)
RECURSIVE JoinSpace(_)
JoinSpace(words) ==
    IF words = <<>> THEN <<>>
    ELSE IF Len(words) = 1 THEN words[1]
    ELSE words[1] \o <<" ">> \o JoinSpace(Tail(words))

(***************************************************************************)
(* dict: a sequence of [k, v] entries in insertion order; assigning to a   *)
(* key that is present replaces its value in place.                        *)
(***************************************************************************)
EmptyDict == <<>>

DictKeys(d) == [i \in 1..Len(d) |-> d[i].k]

DictHas(d, key) == \E i \in 1..Len(d) : d[i].k = key

DictGet(d, key) == d[CHOOSE i \in 1..Len(d) : d[i].k = key].v

DictSet(d, key, value) ==
    IF DictHas(d, key)
    THEN [i \in 1..Len(d) |-> IF d[i].k = key THEN [k |-> key, v |-> value] ELSE d[i]]
    ELSE Append(d, [k |-> key, v |-> value])

(***************************************************************************)
(* Argument values as they arrive from the caller: a JSON string, number,  *)
(* boolean or null.                                                        *)
(***************************************************************************)
PyStr(s) == [type |-> "str", s |-> s, n |-> 0, b |-> FALSE]

PyInt(n) == [type |-> "int", s |-> <<>>, n |-> n, b |-> FALSE]

PyBool(b) == [type |-> "bool", s |-> <<>>, n |-> 0, b |-> b]

PyNone == [type |-> "NoneType", s |-> <<>>, n |-> 0, b |-> FALSE]

\* bool(v)
Truthy(v) ==
    CASE v.type = "str"  -> v.s # <<>>
      [] v.type = "int"  -> v.n # 0
      [] v.type = "bool" -> v.b
      [] OTHER           -> FALSE

\* str(n) for an integer n
RECURSIVE NatStr(_)
NatStr(n) == IF n < 10 THEN <<Digits[n + 1]>> ELSE NatStr(n \div 10) \o <<Digits[(n % 10) + 1]>>

IntStr(n) == IF n < 0 THEN <<"-">> \o NatStr(-n) ELSE NatStr(n)

\* str(v)
Str(v) ==
    CASE v.type = "str"  -> v.s
      [] v.type = "int"  -> IntStr(v.n)
      [] v.type = "bool" -> IF v.b THEN <<"T", "r", "u", "e">>
                                   ELSE <<"F", "a", "l", "s", "e">>
      [] OTHER           -> <<"N", "o", "n", "e">>

(***************************************************************************)
(* build_command_args.  arguments is a dict with the keys "subcommand" (a  *)
(* str), "args" (a list of str), "common_flags" (a dict from str to a      *)
(* value) and "format" (a str), each of which may be missing.              *)
(***************************************************************************)
\* bool(arguments.get(key)) for the str, list and dict values above: a missing
\* key gives None, and None, "", [] and {} are all false.
HasTruthy(arguments, key) == DictHas(arguments, key) /\ DictGet(arguments, key) # <<>>

\* Fault: the test of the value is left out, so that an empty value still
\* produces its flag.
RECURSIVE FlagArgs_NoValueTest(_, _)
FlagArgs_NoValueTest(common_flags, i) ==
    IF i > Len(common_flags) THEN <<>>
    ELSE <<<<"-", "-">> \o ReplaceChar(common_flags[i].k, "_", "-"),
           Str(common_flags[i].v)>>
             \o FlagArgs_NoValueTest(common_flags, i + 1)

\* The elements the loop over common_flags.items() adds, from entry i on.
RECURSIVE FlagArgs(_, _)
FlagArgs(common_flags, i) ==
    IF i > Len(common_flags) THEN <<>>
    ELSE LET flag_name  == common_flags[i].k
             flag_value == common_flags[i].v
             cli_flag   == <<"-", "-">> \o ReplaceChar(flag_name, "_", "-")
         IN  (IF Truthy(flag_value) THEN <<cli_flag, Str(flag_value)>> ELSE <<>>)
                 \o FlagArgs(common_flags, i + 1)

\* Fault: the flags are added before the custom args.
BuildCommandArgs_FlagsFirst(command, arguments) ==
    LET args0 == <<command>>
        args1 == IF HasTruthy(arguments, "subcommand")
                 THEN Append(args0, DictGet(arguments, "subcommand"))
                 ELSE args0
        args2 == IF HasTruthy(arguments, "common_flags")
                 THEN args1 \o FlagArgs(DictGet(arguments, "common_flags"), 1)
                 ELSE args1
        args3 == IF HasTruthy(arguments, "args")
                 THEN args2 \o DictGet(arguments, "args")
                 ELSE args2
    IN  IF /\ HasTruthy(arguments, "format")
           /\ ~\E j \in 1..Len(args3) : StartsWith(args3[j], S_format)
        THEN args3 \o <<S_format, DictGet(arguments, "format")>>
        ELSE args3

\* Fault: the format flag is added without looking for one already present.
BuildCommandArgs_AlwaysFormat(command, arguments) ==
    LET args0 == <<command>>
        args1 == IF HasTruthy(arguments, "subcommand")
                 THEN Append(args0, DictGet(arguments, "subcommand"))
                 ELSE args0
        args2 == IF HasTruthy(arguments, "args")
                 THEN args1 \o DictGet(arguments, "args")
                 ELSE args1
        args3 == IF HasTruthy(arguments, "common_flags")
                 THEN args2 \o FlagArgs(DictGet(arguments, "common_flags"), 1)
                 ELSE args2
    IN  IF HasTruthy(arguments, "format")
        THEN args3 \o <<S_format, DictGet(arguments, "format")>>
        ELSE args3

BuildCommandArgs(command, arguments) ==
    LET args0 == <<command>>
        args1 == IF HasTruthy(arguments, "subcommand")
                 THEN Append(args0, DictGet(arguments, "subcommand"))
                 ELSE args0
        args2 == IF HasTruthy(arguments, "args")
                 THEN args1 \o DictGet(arguments, "args")
                 ELSE args1
        args3 == IF HasTruthy(arguments, "common_flags")
                 THEN args2 \o FlagArgs(DictGet(arguments, "common_flags"), 1)
                 ELSE args2
    IN  IF /\ HasTruthy(arguments, "format")
           /\ ~\E j \in 1..Len(args3) : StartsWith(args3[j], S_format)
        THEN args3 \o <<S_format, DictGet(arguments, "format")>>
        ELSE args3

(***************************************************************************)
(* Top-level help parsing: the loop of discover_glab_commands.  The loop   *)
(* awaits get_command_help for each command it finds; the names it finds,  *)
(* in the order it finds them, depend on help_text alone.                  *)
(***************************************************************************)
IsCommandsHeader(line) ==
    \/ Contains(line, S_AvailableCommands)
    \/ Contains(line, S_Commands)
    \/ Contains(line, S_CORE_COMMANDS)

IsSectionEnd(line) == StartsWith(line, S_FLAGS) \/ StartsWith(line, S_LEARN_MORE)

\* The command a line of the commands section names: <<command>>, or <<>>
\* when the line names none.
CommandOfLine(line) ==
    IF Contains(line, <<":">>)
    THEN LET command == Strip(BeforeColon(line))
         IN  IF command # <<>> /\ ~StartsWith(command, <<"-">>)
             THEN <<command>>
             ELSE <<>>
    ELSE <<>>

\* The loop over the lines, resumed at line i: the index of the first line
\* at which it awaits get_command_help, or 0 when it ends without awaiting.
RECURSIVE NextCommandLine(_, _, _)
NextCommandLine(lines, i, in_commands_section) ==
    IF i > Len(lines) THEN 0
    ELSE LET line == Strip(lines[i])
         IN  IF IsCommandsHeader(line)
             THEN NextCommandLine(lines, i + 1, TRUE)
             ELSE IF in_commands_section /\ line = <<>>
             THEN NextCommandLine(lines, i + 1, in_commands_section)
             ELSE IF in_commands_section /\ IsSectionEnd(line)
             THEN 0
             ELSE IF in_commands_section /\ line # <<>> /\ CommandOfLine(line) # <<>>
             THEN i
             ELSE NextCommandLine(lines, i + 1, in_commands_section)

\* The command of the line at which the loop awaits.
CommandAt(lines, i) == CommandOfLine(Strip(lines[i]))[1]

\* The commands the loop resolves from line i on, in order.
RECURSIVE CommandsFrom(_, _, _)
CommandsFrom(lines, i, in_commands_section) ==
    LET j == NextCommandLine(lines, i, in_commands_section)
    IN  IF j = 0 THEN <<>>
        ELSE <<CommandAt(lines, j)>> \o CommandsFrom(lines, j + 1, TRUE)

ParseTopLevel(lines) == CommandsFrom(lines, 1, FALSE)

(***************************************************************************)
(* Per-command help parsing: get_command_help.                             *)
(***************************************************************************)
\* re.match(r"\s*(-\w|--[\w-]+)", line): <<start, end>> of group 1 as
\* 1-based inclusive positions, or <<>> when the line does not match.
FlagMatch(line) ==
    LET ws   == Span(line, Whitespace)
        rest == From(line, ws + 1)
    IN  IF Len(rest) >= 2 /\ rest[1] = "-" /\ rest[2] \in WordChars
        THEN <<ws + 1, ws + 2>>
        ELSE IF /\ StartsWith(rest, <<"-", "-">>)
                /\ Span(From(rest, 3), WordChars \cup {"-"}) >= 1
        THEN <<ws + 1, ws + 2 + Span(From(rest, 3), WordChars \cup {"-"})>>
        ELSE <<>>

\* The length of the match of r"\s*\[[\w\s,]+\]" at the start of s, 0 if none.
TypeHintLen(s) ==
    LET ws    == Span(s, Whitespace)
        rest  == From(s, ws + 1)
        inner == Span(From(rest, 2), WordChars \cup Whitespace \cup {","})
    IN  IF /\ rest # <<>>
           /\ rest[1] = "["
           /\ inner >= 1
           /\ Len(rest) >= inner + 2
           /\ rest[inner + 2] = "]"
        THEN ws + inner + 2
        ELSE 0

\* re.sub(r"\s*\[[\w\s,]+\]", "", s)
RECURSIVE StripTypeHints(_)
StripTypeHints(s) ==
    IF s = <<>> THEN <<>>
    ELSE IF TypeHintLen(s) > 0 THEN StripTypeHints(From(s, TypeHintLen(s) + 1))
    ELSE <<Head(s)>> \o StripTypeHints(Tail(s))

\* The CommandInfo returned when the help invocation fails.
FallbackInfo(command) ==
    [name        |-> command,
     description |-> S_ExecuteGlab \o command \o <<" ">> \o S_command,
     usage       |-> S_glab \o command,
     flags       |-> <<>>,
     subcommands |-> <<>>]

\* Fault: an "Examples:" or 'Use "' line leaves the section as it is.
ParseHelpLine_NoExit(command, st, line) ==
    LET line_stripped == Strip(line)
        st1 == IF /\ st.description = <<>>
                  /\ line_stripped # <<>>
                  /\ ~StartsWith(line_stripped, S_Usage)
                  /\ \/ Contains(Lower(line_stripped), command)
                     \/ Contains(Lower(line_stripped), S_command)
               THEN [st EXCEPT !.description = line_stripped]
               ELSE st
        st2 == IF StartsWith(line_stripped, S_Usage)
               THEN [st1 EXCEPT !.usage = Strip(Replace(line_stripped, S_Usage, <<>>))]
               ELSE st1
    IN  IF line_stripped \in {S_Flags, S_Options, S_GlobalFlags}
        THEN [st2 EXCEPT !.current_section = "flags"]
        ELSE IF line_stripped \in {S_AvailableCommands, S_Commands}
        THEN [st2 EXCEPT !.current_section = "subcommands"]
        ELSE IF StartsWith(line_stripped, S_Examples) \/ StartsWith(line_stripped, S_UseQuote)
        THEN st2
        ELSE IF st2.current_section = "flags" /\ StartsWith(line, <<" ", " ">>)
        THEN LET m == FlagMatch(line)
             IN  IF m # <<>>
                 THEN [st2 EXCEPT !.flags = Append(@,
                          [name        |-> SubSeq(line, m[1], m[2]),
                           description |-> StripTypeHints(Strip(From(line, m[2] + 1)))])]
                 ELSE st2
        ELSE IF st2.current_section = "subcommands" /\ StartsWith(line, <<" ", " ">>)
        THEN LET sub_parts == SplitWords(Strip(line))
             IN  IF sub_parts # <<>>
                 THEN [st2 EXCEPT !.subcommands = Append(@,
                          [name        |-> sub_parts[1],
                           description |-> JoinSpace(Tail(sub_parts))])]
                 ELSE st2
        ELSE st2

\* One iteration of the loop over the lines of a command's help text; st
\* holds description, usage, flags, subcommands and current_section.
ParseHelpLine(command, st, line) ==
    LET line_stripped == Strip(line)
        st1 == IF /\ st.description = <<>>
                  /\ line_stripped # <<>>
                  /\ ~StartsWith(line_stripped, S_Usage)
                  /\ \/ Contains(Lower(line_stripped), command)
                     \/ Contains(Lower(line_stripped), S_command)
               THEN [st EXCEPT !.description = line_stripped]
               ELSE st
        st2 == IF StartsWith(line_stripped, S_Usage)
               THEN [st1 EXCEPT !.usage = Strip(Replace(line_stripped, S_Usage, <<>>))]
               ELSE st1
    IN  IF line_stripped \in {S_Flags, S_Options, S_GlobalFlags}
        THEN [st2 EXCEPT !.current_section = "flags"]
        ELSE IF line_stripped \in {S_AvailableCommands, S_Commands}
        THEN [st2 EXCEPT !.current_section = "subcommands"]
        ELSE IF StartsWith(line_stripped, S_Examples) \/ StartsWith(line_stripped, S_UseQuote)
        THEN [st2 EXCEPT !.current_section = "none"]
        ELSE IF st2.current_section = "flags" /\ StartsWith(line, <<" ", " ">>)
        THEN LET m == FlagMatch(line)
             IN  IF m # <<>>
                 THEN [st2 EXCEPT !.flags = Append(@,
                          [name        |-> SubSeq(line, m[1], m[2]),
                           description |-> StripTypeHints(Strip(From(line, m[2] + 1)))])]
                 ELSE st2
        ELSE IF st2.current_section = "subcommands" /\ StartsWith(line, <<" ", " ">>)
        THEN LET sub_parts == SplitWords(Strip(line))
             IN  IF sub_parts # <<>>
                 THEN [st2 EXCEPT !.subcommands = Append(@,
                          [name        |-> sub_parts[1],
                           description |-> JoinSpace(Tail(sub_parts))])]
                 ELSE st2
        ELSE st2

RECURSIVE ParseHelpLines(_, _, _, _)
ParseHelpLines(command, st, lines, i) ==
    IF i > Len(lines) THEN st
    ELSE ParseHelpLines(command, ParseHelpLine(command, st, lines[i]), lines, i + 1)

ParseCommandHelp(command, lines) ==
    LET st == ParseHelpLines(command,
                  [description |-> <<>>, usage |-> <<>>, flags |-> <<>>,
                   subcommands |-> <<>>, current_section |-> "none"],
                  lines, 1)
    IN  [name        |-> command,
         description |-> IF st.description # <<>> THEN st.description
                         ELSE FallbackInfo(command).description,
         usage       |-> IF st.usage # <<>> THEN st.usage ELSE FallbackInfo(command).usage,
         flags       |-> st.flags,
         subcommands |-> st.subcommands]

\* get_command_help(command), given the result of its help invocation.
GetCommandHelp(command, help_result) ==
    IF ~help_result.success
    THEN FallbackInfo(command)
    ELSE ParseCommandHelp(command, help_result.stdout)


(***************************************************************************)
(* run_glab_command.  The external process is the environment: it either  *)
(* cannot be started, or exits with a return code, its output captured.    *)
(***************************************************************************)
\* "".split("\n")
EmptyText == << <<>> >>

RunGlabCommand(outcome) ==
    IF outcome.started
    THEN [returncode |-> outcome.returncode,
          stdout     |-> outcome.stdout,
          stderr     |-> outcome.stderr,
          success    |-> outcome.returncode = 0,
          error      |-> None]
    ELSE [returncode |-> -1,
          stdout     |-> EmptyText,
          stderr     |-> outcome.stderr,
          success    |-> FALSE,
          error      |-> Some(outcome.stderr)]

(***************************************************************************)
(* The discovery cache: discover_glab_commands, as the steps between its   *)
(* awaits.  A call is the record of one handler invocation's locals.       *)
(***************************************************************************)
CACHE_TTL == 300

\* Fault: the comparison with the time to live is inverted.
IsFresh_Inverted(cache, timestamp, current_time) ==
    /\ cache # None
    /\ timestamp # None
    /\ current_time - Val(timestamp) >= CACHE_TTL

IsFresh(cache, timestamp, current_time) ==
    /\ cache # None
    /\ timestamp # None
    /\ current_time - Val(timestamp) < CACHE_TTL

S_glab_ == <<"g", "l", "a", "b", "_">>

S_glab_raw == <<"g", "l", "a", "b", "_", "r", "a", "w">>

S_glab_help == <<"g", "l", "a", "b", "_", "h", "e", "l", "p">>

S_glab_discover == <<"g", "l", "a", "b", "_", "d", "i", "s", "c", "o", "v", "e", "r">>

S_glab_examples == <<"g", "l", "a", "b", "_", "e", "x", "a", "m", "p", "l", "e", "s">>

\* The text of the confirmation of glab_discover, after its check mark.
S_Rediscovered ==
    <<"G", "l", "a", "b", " ", "c", "o", "m", "m", "a", "n", "d", "s", " ",
      "r", "e", "-", "d", "i", "s", "c", "o", "v", "e", "r", "e", "d", ".", " ",
      "U", "s", "e", " ", "g", "l", "a", "b", "_", "h", "e", "l", "p", " ",
      "t", "o", " ", "s", "e", "e", " ", "a", "v", "a", "i", "l", "a", "b", "l", "e", " ",
      "c", "o", "m", "m", "a", "n", "d", "s", ".">>

\* tool_name = f"glab_{cmd_name}".replace("-", "_")
ToolName(cmd_name) == ReplaceChar(S_glab_ \o cmd_name, "-", "_")

\* The names of the tools handle_list_tools returns, in order.
ListedTools(commands) ==
    <<S_glab_raw>>
        \o [i \in 1..Len(commands) |-> ToolName(commands[i].k)]
        \o <<S_glab_help, S_glab_discover, S_glab_examples>>

\* What the handler answers once discover_glab_commands has returned.
Response(name, commands) ==
    IF name = "list_tools"
    THEN [tools |-> ListedTools(commands), text |-> <<>>]
    ELSE [tools |-> <<>>, text |-> S_Rediscovered]

IdleCall ==
    [pc           |-> "idle",
     name         |-> "none",
     current_time |-> 0,
     help_result  |-> None,
     line         |-> 0,
     commands     |-> EmptyDict,
     ret          |-> None,
     response     |-> None,
     launched     |-> 0,
     failed       |-> {}]

\* discover_glab_commands returns commands to the handler, which answers.
Return(c, commands) ==
    [c EXCEPT !.pc = "done",
              !.ret = Some(commands),
              !.response = Some(Response(c.name, commands))]

\* The globals a step leaves behind, with the call's locals.
Step(c, cache, timestamp) == [call |-> c, cache |-> cache, timestamp |-> timestamp]

\* Fault: glab_discover does not clear the globals.
Invalidate_Nothing(g) == g

\* handle_call_tool, glab_discover: the two assignments before the await.
Invalidate(g) == [g EXCEPT !.cache = None, !.timestamp = None]

\* Fault: serving the cached snapshot stamps it with the time of the call.
DiscoverEntry_Restamp(c, g, time) ==
    IF IsFresh(g.cache, g.timestamp, time)
    THEN Step(Return([c EXCEPT !.current_time = time], Val(g.cache)),
              g.cache, Some(time))
    ELSE Step([c EXCEPT !.pc = "top_help", !.current_time = time, !.launched = 1],
              g.cache, g.timestamp)

\* Entry of discover_glab_commands up to its first await: the cache check,
\* then the launch of "glab --help".
DiscoverEntry(c, g, time) ==
    IF IsFresh(g.cache, g.timestamp, time)
    THEN Step(Return([c EXCEPT !.current_time = time], Val(g.cache)),
              g.cache, g.timestamp)
    ELSE Step([c EXCEPT !.pc = "top_help", !.current_time = time, !.launched = 1],
              g.cache, g.timestamp)

\* Fault: a failed "glab --help" is cached as an empty snapshot.
AfterTopHelp_CacheFailure(c, g, help_result) ==
    LET c1 == [c EXCEPT !.help_result = Some(help_result)]
        i  == NextCommandLine(help_result.stdout, 1, FALSE)
    IN  IF ~help_result.success \/ i = 0
        THEN Step(Return(c1, EmptyDict), Some(EmptyDict), Some(c.current_time))
        ELSE Step([c1 EXCEPT !.pc = "cmd_help", !.line = i, !.launched = @ + 1],
                  g.cache, g.timestamp)

\* From the completion of "glab --help" to the next await or the return.
AfterTopHelp(c, g, help_result) ==
    LET c1 == [c EXCEPT !.help_result = Some(help_result)]
        i  == NextCommandLine(help_result.stdout, 1, FALSE)
    IN  IF ~help_result.success
        THEN Step(Return(c1, EmptyDict), g.cache, g.timestamp)
        ELSE IF i = 0
        THEN Step(Return(c1, EmptyDict), Some(EmptyDict), Some(c.current_time))
        ELSE Step([c1 EXCEPT !.pc = "cmd_help", !.line = i, !.launched = @ + 1],
                  g.cache, g.timestamp)

\* Fault: the globals are assigned inside the loop, after every command.
AfterCommandHelp_StoreEach(c, g, help_result) ==
    LET lines    == Val(c.help_result).stdout
        command  == CommandAt(lines, c.line)
        cmd_help == GetCommandHelp(command, help_result)
        commands == DictSet(c.commands, command, cmd_help)
        i        == NextCommandLine(lines, c.line + 1, TRUE)
        c1       == [c EXCEPT !.commands = commands,
                              !.failed = IF help_result.success
                                         THEN @ \ {command}
                                         ELSE @ \cup {command}]
    IN  IF i # 0
        THEN Step([c1 EXCEPT !.line = i, !.launched = @ + 1],
                  Some(commands), Some(c.current_time))
        ELSE Step(Return(c1, commands), Some(commands), Some(c.current_time))

\* Fault: a command whose help invocation fails is left out of the snapshot.
AfterCommandHelp_SkipFailed(c, g, help_result) ==
    LET lines    == Val(c.help_result).stdout
        command  == CommandAt(lines, c.line)
        cmd_help == GetCommandHelp(command, help_result)
        commands == IF help_result.success
                    THEN DictSet(c.commands, command, cmd_help)
                    ELSE c.commands
        i        == NextCommandLine(lines, c.line + 1, TRUE)
        c1       == [c EXCEPT !.commands = commands,
                              !.failed = IF help_result.success
                                         THEN @ \ {command}
                                         ELSE @ \cup {command}]
    IN  IF i # 0
        THEN Step([c1 EXCEPT !.line = i, !.launched = @ + 1], g.cache, g.timestamp)
        ELSE Step(Return(c1, commands), Some(commands), Some(c.current_time))

\* From the completion of "glab <command> --help" for the command of the
\* line the loop is at, to the next await or the return.
AfterCommandHelp(c, g, help_result) ==
    LET lines    == Val(c.help_result).stdout
        command  == CommandAt(lines, c.line)
        cmd_help == GetCommandHelp(command, help_result)
        commands == DictSet(c.commands, command, cmd_help)
        i        == NextCommandLine(lines, c.line + 1, TRUE)
        c1       == [c EXCEPT !.commands = commands,
                              !.failed = IF help_result.success
                                         THEN @ \ {command}
                                         ELSE @ \cup {command}]
    IN  IF i # 0
        THEN Step([c1 EXCEPT !.line = i, !.launched = @ + 1], g.cache, g.timestamp)
        ELSE Step(Return(c1, commands), Some(commands), Some(c.current_time))

(***************************************************************************)
(* The environment of the server: the callers, the clock, and what the     *)
(* glab executable prints.                                                 *)
(***************************************************************************)
Procs == {1, 2}

\* The clock advances by half the time to live: a snapshot is seen at the
\* ages 0, TTL/2 (fresh) and TTL (expired).
TickStep == CACHE_TTL \div 2

MaxTime == 300

Exited(returncode, stdout, stderr) ==
    [started |-> TRUE, returncode |-> returncode, stdout |-> stdout, stderr |-> stderr]

NotStarted(stderr) ==
    [started |-> FALSE, returncode |-> 0, stdout |-> EmptyText, stderr |-> stderr]

S_NoSuchFile == <<"N", "o", " ", "s", "u", "c", "h", " ", "f", "i", "l", "e">>

S_ExitStatus == <<"e", "x", "i", "t", " ", "1">>

\* glab --help in the "name: description" convention, two commands.
TopText1 ==
    << S_CORE_COMMANDS,
       <<" ", " ", "m", "r", ":", " ", "M", "e", "r", "g", "e">>,
       <<>>,
       <<" ", " ", "-", "h", ":", " ", "h", "e", "l", "p">>,
       <<" ", " ", "c", "i", "-", "c", "d", ":", " ", "C", "I">>,
       S_FLAGS,
       <<" ", " ", "-", "-", "h", "e", "l", "p", ":", " ", "h">> >>

\* glab --help in the whitespace-separated-columns convention.
TopText2 ==
    << S_AvailableCommands,
       <<" ", " ", "m", "r", " ", " ", " ", "M", "e", "r", "g", "e">> >>

\* glab <command> --help
CmdText1 ==
    << <<"W", "o", "r", "k", " ", "c", "o", "m", "m", "a", "n", "d">>,
       <<"U", "s", "a", "g", "e", ":", " ", "g", "l", "a", "b", " ", "x">>,
       S_Commands,
       <<" ", " ", "l", "i", "s", "t", " ", " ", "L", "i", "s", "t", " ", "a", "l", "l">>,
       S_Flags,
       <<" ", " ", "-", "p", ",", " ", "-", "-", "p", "a", "g", "e", " ", "i", "n", "t",
         " ", " ", "P", "a", "g", "e", " ", "[", "i", "n", "t", "]">>,
       <<" ", " ", "-", "-", "p", "e", "r", "-", "p", "a", "g", "e", " ", " ", "N">> >>

TopOutcomes ==
    { NotStarted(S_NoSuchFile),
      Exited(1, EmptyText, S_ExitStatus),
      Exited(0, TopText1, <<>>),
      Exited(0, TopText2, <<>>) }

CmdOutcomes ==
    { Exited(1, EmptyText, S_ExitStatus),
      Exited(0, CmdText1, <<>>) }

VARIABLES
    command_cache,      \* _command_cache: None or Some(dict command -> CommandInfo)
    cache_timestamp,    \* _cache_timestamp: None or Some(time)
    now,                \* time.time()
    call,               \* per caller: the handler invocation in flight or just ended
    served,             \* history: the callers whose last call returned the snapshot
                        \* object that is stored now
    marshal,            \* build_command_args: its two parameters and what it returned
    parse,              \* the top-level parse: a help text and the commands found in it
    synth,              \* create_dynamic_tool_schema: its parameter and what it returned
    proc,               \* run_glab_command: what the process did and what was returned
    cmdhelp,            \* the loop of get_command_help: its lines and its locals
    tool,               \* per caller: the handle_call_tool invocation in flight or just ended
    hung                \* the callers whose external process never terminates

vars == <<command_cache, cache_timestamp, now, call, served, marshal, parse,
          synth, proc, cmdhelp, tool, hung>>

\* The state of the functions and handlers that a specification leaves alone.
auxVars == <<synth, proc, cmdhelp, tool, hung>>

cacheVars == <<command_cache, cache_timestamp, now, call, served>>

Globals == [cache |-> command_cache, timestamp |-> cache_timestamp]

\* The callers that were handed the object _command_cache refers to after
\* caller p took the step s.
ServedAfter(p, s) ==
    IF s.cache # command_cache \/ s.timestamp # cache_timestamp
    THEN IF s.call.pc = "done" /\ s.call.ret = s.cache THEN {p} ELSE {}
    ELSE IF s.call.pc = "done" /\ s.call.launched = 0
    THEN served \cup {p}
    ELSE served \ {p}

Apply(p, s) ==
    /\ call' = [call EXCEPT ![p] = s.call]
    /\ command_cache' = s.cache
    /\ cache_timestamp' = s.timestamp
    /\ served' = ServedAfter(p, s)
    /\ UNCHANGED <<now, marshal, parse, auxVars>>

\* The module as imported: no snapshot, no call in flight.
CacheInit ==
    /\ command_cache = None
    /\ cache_timestamp = None
    /\ now = 0
    /\ call = [p \in Procs |-> IdleCall]
    /\ served = {}

MarshalIdle == [command |-> <<>>, arguments |-> EmptyDict, args |-> None]

ParseIdle == [listing |-> <<>>, help_text |-> EmptyText, commands |-> None]

SynthIdle == [command_info |-> None, schema |-> None]

ProcIdle == [outcome |-> None, result |-> None]

HelpIdle == [lines |-> <<>>, i |-> 1, st |-> None]

\* A handle_call_tool invocation: its parameters, what it passed to
\* run_glab_command, what that returned and what the handler answered.
\* listed, earlier and during are history: whether name was the name of a
\* listed tool when the call was made, whether the caller's previous call
\* failed, and the callers whose process was hanging when the call was made.
ToolIdle ==
    [pc        |-> "idle",
     name      |-> <<>>,
     arguments |-> None,
     argv      |-> None,
     cwd       |-> None,
     result    |-> None,
     response  |-> None,
     raised    |-> FALSE,
     failed    |-> FALSE,
     launched  |-> 0,
     listed    |-> FALSE,
     earlier   |-> FALSE,
     during    |-> {}]

AuxIdle ==
    /\ synth = SynthIdle
    /\ proc = ProcIdle
    /\ cmdhelp = HelpIdle
    /\ tool = [p \in Procs |-> ToolIdle]
    /\ hung = {}

Init ==
    /\ CacheInit
    /\ marshal = MarshalIdle
    /\ parse = ParseIdle
    /\ AuxIdle

\* handle_list_tools is invoked.
HandleListTools(p) ==
    /\ call[p].pc \in {"idle", "done"}
    /\ Apply(p, DiscoverEntry([IdleCall EXCEPT !.name = "list_tools"], Globals, now))

\* handle_call_tool is invoked with the name glab_discover.
HandleDiscover(p) ==
    /\ call[p].pc \in {"idle", "done"}
    /\ Apply(p, DiscoverEntry([IdleCall EXCEPT !.name = "glab_discover"],
                              Invalidate(Globals), now))

\* "glab --help" ends.
TopHelpEnds(p) ==
    /\ call[p].pc = "top_help"
    /\ \E outcome \in TopOutcomes :
           Apply(p, AfterTopHelp(call[p], Globals, RunGlabCommand(outcome)))

\* "glab <command> --help" ends.
CommandHelpEnds(p) ==
    /\ call[p].pc = "cmd_help"
    /\ \E outcome \in CmdOutcomes :
           Apply(p, AfterCommandHelp(call[p], Globals, RunGlabCommand(outcome)))

Tick ==
    /\ now + TickStep <= MaxTime
    /\ now' = now + TickStep
    /\ UNCHANGED <<command_cache, cache_timestamp, call, served, marshal, parse, auxVars>>

Next ==
    \/ \E p \in Procs : HandleListTools(p)
    \/ \E p \in Procs : HandleDiscover(p)
    \/ \E p \in Procs : TopHelpEnds(p)
    \/ \E p \in Procs : CommandHelpEnds(p)
    \/ Tick

Spec == Init /\ [][Next]_vars

(***************************************************************************)
(* The top-level parse on its own: a help text is laid out from a listing  *)
(* (a header, then one line per entry) and parsed.                         *)
(***************************************************************************)
MaxListed == 3

S_mr == <<"m", "r">>

S_ci_cd == <<"c", "i", "-", "c", "d">>

S_Merge == <<"M", "e", "r", "g", "e">>

S_dash_h == <<"-", "h">>

\* A listed line: a name and a description in one of the two conventions,
\* or an empty line.
ListedEntries ==
    { [name |-> n, convention |-> c] :
          n \in {S_mr, S_ci_cd, S_dash_h, S_help},
          c \in {"colon", "columns"} }
        \cup { [name |-> <<>>, convention |-> "blank"] }

Headers == {S_AvailableCommands, S_Commands, S_CORE_COMMANDS}

Listings == UNION { [1..n -> ListedEntries] : n \in 1..MaxListed }

\* "  name: description" or "  name   description"
LineOf(entry) ==
    CASE entry.convention = "colon" ->
             <<" ", " ">> \o entry.name \o <<":", " ">> \o S_Merge
      [] entry.convention = "columns" ->
             <<" ", " ">> \o entry.name \o <<" ", " ", " ">> \o S_Merge
      [] OTHER -> <<>>

LayOut(header, listing) == <<header>> \o [i \in 1..Len(listing) |-> LineOf(listing[i])]

ParseInit ==
    /\ CacheInit
    /\ marshal = MarshalIdle
    /\ AuxIdle
    /\ \E header \in Headers, listing \in Listings :
           parse = [listing   |-> listing,
                    help_text |-> LayOut(header, listing),
                    commands  |-> None]

ParseHelp ==
    /\ parse.commands = None
    /\ parse' = [parse EXCEPT !.commands = Some(ParseTopLevel(parse.help_text))]
    /\ UNCHANGED <<cacheVars, marshal, auxVars>>

SpecParse == ParseInit /\ [][ParseHelp]_vars

(***************************************************************************)
(* build_command_args on its own: a command and a request are chosen, and  *)
(* marshalled.                                                             *)
(***************************************************************************)
MaxFlags == 2

S_repo == <<"r", "e", "p", "o">>

S_list == <<"l", "i", "s", "t">>

S_mine == <<"-", "-", "m", "i", "n", "e">>

S_json == <<"j", "s", "o", "n">>

S_format_eq == <<"-", "-", "f", "o", "r", "m", "a", "t", "=", "t", "e", "x", "t">>

S_per_page == <<"p", "e", "r", "_", "p", "a", "g", "e">>

S_format_key == <<"f", "o", "r", "m", "a", "t">>

S_5 == <<"5">>

\* Each is None when the request does not have the key.
SubcommandChoices == {None, Some(<<>>), Some(S_list)}

ArgsChoices ==
    {None, Some(<<>>), Some(<<S_mine>>), Some(<<S_5, S_format_eq>>), Some(<<S_format>>)}

FormatChoices == {None, Some(<<>>), Some(S_json)}

FlagNames == {S_per_page, S_format_key, <<"a">>}

FlagValues == {PyStr(S_5), PyStr(<<>>), PyStr(S_format), PyNone, PyInt(0), PyInt(12), PyBool(TRUE)}

\* The dicts of at most MaxFlags flags: sequences of entries with distinct keys.
FlagDicts ==
    UNION { { d \in [1..n -> [k : FlagNames, v : FlagValues]] :
                \A i, j \in 1..n : i # j => d[i].k # d[j].k } : n \in 0..MaxFlags }

CommonFlagsChoices == {None} \cup {Some(d) : d \in FlagDicts}

Entry(key, choice) == IF choice = None THEN <<>> ELSE <<[k |-> key, v |-> Val(choice)]>>

Arguments(subcommand, args, common_flags, format) ==
    Entry("subcommand", subcommand) \o Entry("args", args)
        \o Entry("common_flags", common_flags) \o Entry("format", format)

ArgvInit ==
    /\ CacheInit
    /\ parse = ParseIdle
    /\ AuxIdle
    /\ \E command \in {S_repo, S_format},
          subcommand \in SubcommandChoices,
          args \in ArgsChoices,
          common_flags \in CommonFlagsChoices,
          format \in FormatChoices :
           marshal = [command   |-> command,
                      arguments |-> Arguments(subcommand, args, common_flags, format),
                      args      |-> None]

BuildArgs ==
    /\ marshal.args = None
    /\ marshal' = [marshal EXCEPT
                       !.args = Some(BuildCommandArgs(marshal.command, marshal.arguments))]
    /\ UNCHANGED <<cacheVars, parse, auxVars>>

SpecArgv == ArgvInit /\ [][BuildArgs]_vars

(***************************************************************************)
(* Properties of the discovery cache (Spec).                               *)
(***************************************************************************)
\* A snapshot is stored and its age is below the time to live.
FreshSnapshotStored ==
    /\ command_cache # None
    /\ cache_timestamp # None
    /\ now - Val(cache_timestamp) < 300

Rebuilding(p) == call[p].pc \in {"top_help", "cmd_help"}

\* Caller p enters a handler in this step.
Starts(p) == call[p].pc \in {"idle", "done"} /\ call'[p] # call[p]

\* The set of the commands the top-level parse of caller c's rebuild finds.
FoundBy(c) == Range(ParseTopLevel(Val(c.help_result).stdout))

KeySet(d) == Range(DictKeys(d))

\* C1, as stated: the rebuild is serialized, at most one is in progress at
\* any time, however many callers find no fresh snapshot.
C1_AtMostOneRebuild == Cardinality({p \in Procs : Rebuilding(p)}) <= 1

\* C1, amended: every caller whose own check finds no fresh snapshot runs
\* its own rebuild, and only such a caller does; one call launches "glab
\* --help" once and one help invocation per command found.
C1_RebuildPerStaleCaller ==
    [][\A p \in Procs :
           /\ (Starts(p) /\ call'[p].name = "list_tools")
                  => (Rebuilding(p)' <=> ~FreshSnapshotStored)
           /\ (Starts(p) /\ Rebuilding(p)') => call'[p].launched = 1
           /\ (Rebuilding(p) /\ call'[p].pc = "done" /\ Val(call'[p].help_result).success)
                  => call'[p].launched = 1 + Len(ParseTopLevel(Val(call'[p].help_result).stdout))
      ]_vars

\* Two callers are rebuilding at the same time.
C1_Witness == \A p \in Procs : Rebuilding(p)

\* C2: with a fresh snapshot stored, get_snapshot returns the stored
\* snapshot, launches nothing and leaves snapshot and timestamp as they are;
\* all the calls served from the stored snapshot returned that snapshot.
C2_FreshHit ==
    [][/\ \A p \in Procs :
              (Starts(p) /\ call'[p].name = "list_tools" /\ FreshSnapshotStored)
                  => /\ call'[p].pc = "done"
                     /\ call'[p].ret = command_cache
                     /\ call'[p].launched = 0
                     /\ command_cache' = command_cache
                     /\ cache_timestamp' = cache_timestamp
       /\ \A p, q \in served' :
              call'[p].ret = call'[q].ret /\ call'[p].ret = command_cache'
      ]_vars

\* After time has passed, both callers have been served the snapshot that
\* is stored, one of them from the cache.
C2_Witness ==
    /\ served = Procs
    /\ \E p \in Procs : call[p].launched = 0 /\ call[p].current_time > Val(cache_timestamp)

\* discover_glab_commands returns to caller p in this step.
Returns(p) == call'[p].pc = "done" /\ call'[p] # call[p]

\* C3: the globals change only together, to None and None or to the complete
\* result of the rebuild that ends in this step; what a caller is returned
\* is empty (no snapshot), the stored snapshot or its own complete result.
C3_NeverPartial ==
    [][/\ (command_cache' = None) <=> (cache_timestamp' = None)
       /\ (command_cache' # command_cache \/ cache_timestamp' # cache_timestamp)
              => \/ command_cache' = None /\ cache_timestamp' = None
                 \/ \E p \in Procs :
                        /\ Rebuilding(p)
                        /\ call'[p].pc = "done"
                        /\ command_cache' = Some(call'[p].commands)
                        /\ cache_timestamp' = Some(call[p].current_time)
                        /\ KeySet(call'[p].commands) = FoundBy(call'[p])
       /\ \A p \in Procs :
              Returns(p)
                  => \/ call'[p].ret = Some(EmptyDict) /\ call'[p].commands = EmptyDict
                     \/ call'[p].ret = command_cache /\ call'[p].launched = 0
                     \/ /\ call'[p].ret = Some(call'[p].commands)
                        /\ KeySet(call'[p].commands) = FoundBy(call'[p])
      ]_vars

\* A complete snapshot of two commands is stored while a rebuild in progress
\* has resolved one of its two commands.
C3_Witness ==
    /\ command_cache # None
    /\ Len(Val(command_cache)) = 2
    /\ \E p \in Procs : call[p].pc = "cmd_help" /\ Len(call[p].commands) = 1

\* C4: glab_discover clears snapshot and timestamp and starts a rebuild
\* whatever the age of the snapshot; it confirms only after "glab --help"
\* and, when that succeeds, one help invocation per command have run.
C4_DiscoverRebuilds ==
    [][\A p \in Procs :
           /\ (Starts(p) /\ call'[p].name = "glab_discover")
                  => /\ command_cache' = None
                     /\ cache_timestamp' = None
                     /\ call'[p].pc = "top_help"
                     /\ call'[p].launched = 1
           /\ (call'[p].pc = "done" /\ call'[p].name = "glab_discover")
                  => /\ Val(call'[p].response).text = S_Rediscovered
                     /\ call'[p].launched >= 1
                     /\ Val(call'[p].help_result).success
                            => /\ call'[p].launched = 1 + Len(ParseTopLevel(Val(call'[p].help_result).stdout))
                               /\ KeySet(Val(call'[p].ret)) = FoundBy(call'[p])
      ]_vars

\* glab_discover is rebuilding, the globals cleared, within the time to live
\* of the snapshot the other caller built and was returned.
C4_Witness ==
    \E p, q \in Procs :
        /\ call[p].name = "glab_discover"
        /\ call[p].pc = "top_help"
        /\ command_cache = None
        /\ call[q].pc = "done"
        /\ call[q].launched >= 2
        /\ call[p].current_time - call[q].current_time < 300

\* The top-level help invocation of caller p fails in this step.
TopHelpFails(p) ==
    /\ call[p].pc = "top_help"
    /\ call'[p].pc # "top_help"
    /\ ~Val(call'[p].help_result).success

\* C5: when "glab --help" fails, discover_glab_commands returns an empty
\* command set and leaves snapshot and timestamp as they were; list-tools
\* then still lists the raw-execution and the help tool.
C5_TopFailure ==
    [][\A p \in Procs :
           TopHelpFails(p)
               => /\ call'[p].pc = "done"
                  /\ call'[p].ret = Some(EmptyDict)
                  /\ command_cache' = command_cache
                  /\ cache_timestamp' = cache_timestamp
                  /\ call[p].name = "list_tools"
                         => /\ S_glab_raw \in Range(Val(call'[p].response).tools)
                            /\ S_glab_help \in Range(Val(call'[p].response).tools)
      ]_vars

\* list-tools has answered after a failed "glab --help" while an expired
\* snapshot is still stored.
C5_Witness ==
    \E p \in Procs :
        /\ call[p].pc = "done"
        /\ call[p].name = "list_tools"
        /\ call[p].help_result # None
        /\ ~Val(call[p].help_result).success
        /\ command_cache # None
        /\ Len(Val(command_cache)) = 2
        /\ now - Val(cache_timestamp) >= 300

\* The CommandInfo of a command whose help invocation failed.
GenericInfo(command) ==
    [name        |-> command,
     description |-> <<"E", "x", "e", "c", "u", "t", "e", " ", "g", "l", "a", "b", " ">>
                         \o command \o <<" ", "c", "o", "m", "m", "a", "n", "d">>,
     usage       |-> <<"g", "l", "a", "b", " ">> \o command,
     flags       |-> <<>>,
     subcommands |-> <<>>]

\* C6: a command whose help invocation fails gets the generic CommandInfo;
\* the failure does not end the rebuild and leaves the entries of the other
\* commands alone; the completed snapshot has an entry for every command
\* the top-level parse found.
C6_TotalDiscovery ==
    [][\A p \in Procs :
           /\ \A command \in call'[p].failed :
                  /\ DictHas(call'[p].commands, command)
                  /\ DictGet(call'[p].commands, command) = GenericInfo(command)
           /\ (call[p].pc = "cmd_help" /\ call'[p] # call[p])
                  => /\ call'[p].pc \in {"cmd_help", "done"}
                     /\ DictHas(call'[p].commands, CommandAt(Val(call[p].help_result).stdout, call[p].line))
                     /\ \A i \in 1..Len(call[p].commands) :
                            call[p].commands[i].k # CommandAt(Val(call[p].help_result).stdout, call[p].line)
                                => call'[p].commands[i] = call[p].commands[i]
           /\ (Rebuilding(p) /\ call'[p].pc = "done" /\ Val(call'[p].help_result).success)
                  => /\ KeySet(Val(call'[p].ret)) = FoundBy(call'[p])
                     /\ command_cache' = call'[p].ret
      ]_vars

\* A snapshot is stored in which one command has the generic CommandInfo and
\* the other the one parsed from its help.
C6_Witness ==
    \E p \in Procs :
        /\ call[p].pc = "done"
        /\ command_cache = Some(call[p].commands)
        /\ Cardinality(call[p].failed) = 1
        /\ \E i \in 1..Len(call[p].commands) : call[p].commands[i].v.flags # <<>>

(***************************************************************************)
(* Properties of the top-level parse (SpecParse).                          *)
(***************************************************************************)
\* The names a listing lists, in order, without the lines that start with "-".
RECURSIVE ListedCommands(_)
ListedCommands(listing) ==
    IF listing = <<>> THEN <<>>
    ELSE (IF Head(listing).convention # "blank" /\ Head(listing).name[1] # "-"
          THEN <<Head(listing).name>>
          ELSE <<>>) \o ListedCommands(Tail(listing))

\* C7: for a help text whose commands section is opened by a recognized
\* header and whose command lines use the "name   description" or the
\* "name: description" convention, the top-level parse returns exactly the
\* listed names, in listing order, without the lines that start with "-".
C7_ParseReturnsListed ==
    parse.commands # None => Val(parse.commands) = ListedCommands(parse.listing)

(***************************************************************************)
(* Properties of build_command_args (SpecArgv).                            *)
(***************************************************************************)
\* The value the request has under key, <<>> when it has none.
Requested(key) ==
    IF DictHas(marshal.arguments, key) THEN DictGet(marshal.arguments, key) ELSE <<>>

\* The groups of the argument list, each computed from the request alone.
SubcommandGroup == IF Requested("subcommand") # <<>> THEN <<Requested("subcommand")>> ELSE <<>>

PositionalGroup == Requested("args")

RECURSIVE FlagPairs(_)
FlagPairs(flags) ==
    IF flags = <<>> THEN <<>>
    ELSE (IF Truthy(Head(flags).v)
          THEN << <<"-", "-">> \o ReplaceChar(Head(flags).k, "_", "-"), Str(Head(flags).v) >>
          ELSE <<>>) \o FlagPairs(Tail(flags))

BeforeFormat ==
    <<marshal.command>> \o SubcommandGroup \o PositionalGroup
        \o FlagPairs(Requested("common_flags"))

FormatGroup == <<S_format, Requested("format")>>

\* The request of the example: subcommand "list", args ["--mine"], no flag,
\* format "json", for the command "repo".
IsExampleRequest ==
    /\ marshal.command = S_repo
    /\ Requested("subcommand") = S_list
    /\ Requested("args") = <<S_mine>>
    /\ Requested("common_flags") = <<>>
    /\ Requested("format") = S_json

\* C8: the argument list is exactly [command] ++ [subcommand if present] ++
\* positional args in order ++ the flag pairs in the order of the flag map ++
\* ["--format", format] if appended; the example request for "repo" yields
\* ["repo", "list", "--mine", "--format", "json"].
C8_FixedOrder ==
    marshal.args # None =>
        /\ Val(marshal.args) \in {BeforeFormat, BeforeFormat \o FormatGroup}
        /\ IsExampleRequest =>
               Val(marshal.args) = <<S_repo, S_list, S_mine, S_format, S_json>>

\* A request with a subcommand, positional args, a flag that is emitted and
\* a format that is appended has been marshalled.
C8_Witness ==
    /\ marshal.args # None
    /\ SubcommandGroup # <<>>
    /\ PositionalGroup # <<>>
    /\ FlagPairs(Requested("common_flags")) # <<>>
    /\ Len(Val(marshal.args)) = Len(BeforeFormat) + 2

AlreadyHasFormat == \E j \in 1..Len(BeforeFormat) : StartsWith(BeforeFormat[j], S_format)

Emitted(i) == Cardinality({j \in 1..i : Truthy(Requested("common_flags")[j].v)})

FlagsStart == 1 + Len(SubcommandGroup) + Len(PositionalGroup)

\* C10: a flag-map entry with a non-empty value contributes exactly two
\* consecutive elements, "--" followed by its name with "_" mapped to "-",
\* then its value as a string; an entry with an empty value (None, "", 0)
\* contributes nothing.
C10_FlagPairs ==
    marshal.args # None =>
        LET flags == Requested("common_flags")
            args  == Val(marshal.args)
        IN  /\ Len(args) - FlagsStart \in {2 * Emitted(Len(flags)), 2 * Emitted(Len(flags)) + 2}
            /\ \A i \in 1..Len(flags) :
                   Truthy(flags[i].v) =>
                       /\ args[FlagsStart + 2 * Emitted(i) - 1]
                              = <<"-", "-">> \o ReplaceChar(flags[i].k, "_", "-")
                       /\ args[FlagsStart + 2 * Emitted(i)] = Str(flags[i].v)

\* A flag map with an emitted flag whose name has an underscore, followed by
\* a flag with an empty value, has been marshalled.
C10_Witness ==
    /\ marshal.args # None
    /\ Len(Requested("common_flags")) = 2
    /\ Requested("common_flags")[1].k = S_per_page
    /\ Truthy(Requested("common_flags")[1].v)
    /\ ~Truthy(Requested("common_flags")[2].v)

(***************************************************************************)
(* create_dynamic_tool_schema.  A schema's "properties" is a dict from the *)
(* property name to the property; of the constant description texts only   *)
(* what depends on command_info is kept.                                   *)
(***************************************************************************)
S_args == <<"a", "r", "g", "s">>

S_common_flags == <<"c", "o", "m", "m", "o", "n", "_", "f", "l", "a", "g", "s">>

S_subcommand == <<"s", "u", "b", "c", "o", "m", "m", "a", "n", "d">>

S_cwd == <<"c", "w", "d">>

S_table == <<"t", "a", "b", "l", "e">>

S_text == <<"t", "e", "x", "t">>

\* flag["name"].lstrip("-").replace("-", "_")
FlagProperty(flag_name) == ReplaceChar(LStripDash(flag_name), "-", "_")

\* properties["common_flags"]["properties"] after the first i flags.
RECURSIVE FlagProperties(_, _)
FlagProperties(flags, i) ==
    IF i = 0 THEN EmptyDict
    ELSE DictSet(FlagProperties(flags, i - 1),
                 FlagProperty(flags[i].name),
                 [type |-> "string", description |-> flags[i].description])

\* [sub["name"] for sub in subs]
Names(subs) == [i \in 1..Len(subs) |-> subs[i].name]

\* Fault: the flag map is added whether or not the command has flags.
CreateDynamicToolSchema_AlwaysFlags(command_info) ==
    LET p1 == DictSet(EmptyDict, S_args,
                      [type |-> "array", items |-> "string", of |-> command_info.name])
        p2 == DictSet(p1, S_common_flags,
                      [type       |-> "object",
                       properties |-> FlagProperties(command_info.flags,
                                                     Len(command_info.flags))])
        p3 == IF command_info.subcommands # <<>>
              THEN DictSet(p2, S_subcommand,
                           [type     |-> "string",
                            enum     |-> Names(command_info.subcommands),
                            examples |-> SubSeq(command_info.subcommands, 1,
                                             IF Len(command_info.subcommands) < 3
                                             THEN Len(command_info.subcommands) ELSE 3)])
              ELSE p2
        p4 == DictSet(p3, S_cwd, [type |-> "string"])
        p5 == DictSet(p4, S_format_key,
                      [type |-> "string", enum |-> <<S_json, S_table, S_text>>])
    IN  [type |-> "object", properties |-> p5, required |-> <<>>]

CreateDynamicToolSchema(command_info) ==
    LET p1 == DictSet(EmptyDict, S_args,
                      [type |-> "array", items |-> "string", of |-> command_info.name])
        p2 == IF command_info.flags # <<>>
              THEN DictSet(p1, S_common_flags,
                           [type       |-> "object",
                            properties |-> FlagProperties(command_info.flags,
                                                          Len(command_info.flags))])
              ELSE p1
        p3 == IF command_info.subcommands # <<>>
              THEN DictSet(p2, S_subcommand,
                           [type     |-> "string",
                            enum     |-> Names(command_info.subcommands),
                            examples |-> SubSeq(command_info.subcommands, 1,
                                             IF Len(command_info.subcommands) < 3
                                             THEN Len(command_info.subcommands) ELSE 3)])
              ELSE p2
        p4 == DictSet(p3, S_cwd, [type |-> "string"])
        p5 == DictSet(p4, S_format_key,
                      [type |-> "string", enum |-> <<S_json, S_table, S_text>>])
    IN  [type |-> "object", properties |-> p5, required |-> <<>>]

(***************************************************************************)
(* create_dynamic_tool_schema on its own: a CommandInfo as get_command_help *)
(* can return it is chosen, and its schema synthesized.                     *)
(***************************************************************************)
MaxSubcommands == 2

S_dry_run == <<"-", "-", "d", "r", "y", "-", "r", "u", "n">>

S_dry_run_u == <<"-", "-", "d", "r", "y", "_", "r", "u", "n">>

S_f_short == <<"-", "f">>

S_f_long == <<"-", "-", "f">>

S_format_flag == <<"-", "-", "f", "o", "r", "m", "a", "t">>

S_view == <<"v", "i", "e", "w">>

S_create == <<"c", "r", "e", "a", "t", "e">>

\* The names the flag pattern of get_command_help matches.
InfoFlagNames == {S_dry_run, S_dry_run_u, S_f_short, S_f_long, S_format_flag, S_mine}

InfoFlags ==
    UNION { [1..n -> [name : InfoFlagNames, description : {S_Merge}]] : n \in 0..MaxFlags }

InfoSubcommands ==
    UNION { [1..n -> [name : {S_list, S_view, S_create}, description : {<<>>}]] :
                n \in 0..MaxSubcommands }

CommandInfos ==
    { [name        |-> S_mr,
       description |-> FallbackInfo(S_mr).description,
       usage       |-> FallbackInfo(S_mr).usage,
       flags       |-> flags,
       subcommands |-> subcommands] : flags \in InfoFlags, subcommands \in InfoSubcommands }

SchemaInit ==
    /\ CacheInit
    /\ marshal = MarshalIdle
    /\ parse = ParseIdle
    /\ proc = ProcIdle
    /\ cmdhelp = HelpIdle
    /\ tool = [p \in Procs |-> ToolIdle]
    /\ hung = {}
    /\ \E command_info \in CommandInfos :
           synth = [command_info |-> Some(command_info), schema |-> None]

Synthesize ==
    /\ synth.schema = None
    /\ synth' = [synth EXCEPT !.schema = Some(CreateDynamicToolSchema(Val(synth.command_info)))]
    /\ UNCHANGED <<cacheVars, marshal, parse, proc, cmdhelp, tool, hung>>

SpecSchema == SchemaInit /\ [][Synthesize]_vars

(***************************************************************************)
(* Properties of create_dynamic_tool_schema (SpecSchema).                  *)
(***************************************************************************)
SchemaProperties == Val(synth.schema).properties

\* The flag-map properties of the synthesized schema; none without the map.
FlagMap ==
    IF DictHas(SchemaProperties, S_common_flags)
    THEN DictGet(SchemaProperties, S_common_flags).properties
    ELSE EmptyDict

InfoFlagNamesOf(command_info) ==
    {command_info.flags[i].name : i \in 1..Len(command_info.flags)}

\* C11: in every synthesized schema the flag-map properties are as many as
\* the distinct flag names of the CommandInfo, i.e. two flags whose names
\* differ as written never share a property.
C11_NoCollision ==
    synth.schema # None =>
        Len(FlagMap) = Cardinality(InfoFlagNamesOf(Val(synth.command_info)))

\* C12: every synthesized schema has the properties args, cwd and format,
\* format with the enum json, table, text; it has the flag map exactly when
\* flags is non-empty and the subcommand property exactly when subcommands
\* is non-empty, its enum then being the subcommand names in order.
C12_SchemaShape ==
    synth.schema # None =>
        LET info == Val(synth.command_info)
        IN  /\ DictHas(SchemaProperties, S_args)
            /\ DictGet(SchemaProperties, S_args).type = "array"
            /\ DictHas(SchemaProperties, S_cwd)
            /\ DictHas(SchemaProperties, S_format_key)
            /\ DictGet(SchemaProperties, S_format_key).enum = <<S_json, S_table, S_text>>
            /\ DictHas(SchemaProperties, S_common_flags) <=> info.flags # <<>>
            /\ DictHas(SchemaProperties, S_subcommand) <=> info.subcommands # <<>>
            /\ info.subcommands # <<>> =>
                   DictGet(SchemaProperties, S_subcommand).enum = Names(info.subcommands)
            /\ Range(DictKeys(SchemaProperties)) \subseteq
                   {S_args, S_cwd, S_format_key, S_common_flags, S_subcommand}

\* A schema was synthesized for a command without flags and with two
\* subcommands.
C12_Witness ==
    /\ synth.schema # None
    /\ Val(synth.command_info).flags = <<>>
    /\ Len(Val(synth.command_info).subcommands) = 2
    /\ ~DictHas(SchemaProperties, S_common_flags)
    /\ DictHas(SchemaProperties, S_subcommand)

ReservedProperties == {S_args, S_cwd, S_format_key, S_subcommand}

\* C17: no synthesized schema has a flag property whose name is one of the
\* reserved property names args, cwd, format, subcommand.
C17_ReservedDropped ==
    synth.schema # None =>
        \A i \in 1..Len(FlagMap) : FlagMap[i].k \notin ReservedProperties

(***************************************************************************)
(* run_glab_command on the bytes the process wrote.  The bytes are         *)
(* integers; bytes.decode("utf-8") and json.loads are computed, and an      *)
(* exception a step raises is the value Raise(...) until a handler of the   *)
(* source catches it.                                                       *)
(***************************************************************************)
\* The characters of the code points 32 to 126 (the grave accent, 96, is
\* written U+96).
Printable ==
    <<" ", "!", "\"", "#", "$", "%", "&", "'", "(", ")", "*", "+",
      ",", "-", ".", "/", "0", "1", "2", "3", "4", "5", "6", "7",
      "8", "9", ":", ";", "<", "=", ">", "?", "@", "A", "B", "C",
      "D", "E", "F", "G", "H", "I", "J", "K", "L", "M", "N", "O",
      "P", "Q", "R", "S", "T", "U", "V", "W", "X", "Y", "Z", "[",
      "\\", "]", "^", "_", "U+96", "a", "b", "c", "d", "e", "f", "g",
      "h", "i", "j", "k", "l", "m", "n", "o", "p", "q", "r", "s",
      "t", "u", "v", "w", "x", "y", "z", "{", "|", "}", "~">>

\* chr(cp)
Chr(cp) ==
    IF cp \in 32..126 THEN Printable[cp - 31]
    ELSE IF cp = 10 THEN "\n"
    ELSE IF cp = 9 THEN "\t"
    ELSE IF cp = 13 THEN "\r"
    ELSE "U+" \o ToString(cp)

\* ord(c), for the characters of Printable and the line feed
Ord(c) == IF c = "\n" THEN 10 ELSE 31 + CHOOSE i \in 1..Len(Printable) : Printable[i] = c

\* s.encode("utf-8") for an ASCII s
Encode(s) == [i \in 1..Len(s) |-> Ord(s[i])]

\* b.decode("utf-8") for one- and two-byte sequences: Some(str), or None
\* for UnicodeDecodeError.  A byte from 128 that is not the lead byte of a
\* two-byte sequence followed by a continuation byte is invalid here; lead
\* bytes of longer sequences (224 to 244) are outside what is modelled.
RECURSIVE Utf8Decode(_)
Utf8Decode(b) ==
    IF b = <<>> THEN Some(<<>>)
    ELSE IF b[1] < 128
    THEN LET rest == Utf8Decode(Tail(b))
         IN  IF rest = None THEN None ELSE Some(<<Chr(b[1])>> \o Val(rest))
    ELSE IF b[1] \in 194..223 /\ Len(b) >= 2 /\ b[2] \in 128..191
    THEN LET rest == Utf8Decode(From(b, 3))
         IN  IF rest = None THEN None
             ELSE Some(<<Chr((b[1] - 192) * 64 + (b[2] - 128))>> \o Val(rest))
    ELSE None

\* stdout.decode("utf-8") if stdout else ""
Decode(b) == IF b = <<>> THEN Some(<<>>) ELSE Utf8Decode(b)

\* str.strip() on a text that may hold line feeds
PyWhitespace == Whitespace \cup {"\n"}

StripText(s) ==
    LET l == From(s, Span(s, PyWhitespace) + 1)
    IN  SubSeq(l, 1, Len(l) - Span(Reverse(l), PyWhitespace))

Raise(exc, message) == [kind |-> "raise", exc |-> exc, message |-> message]

S_MaxRecursion ==
    <<"m", "a", "x", "i", "m", "u", "m", " ", "r", "e", "c", "u", "r", "s", "i", "o", "n">>

S_CannotDecode ==
    <<"c", "a", "n", "'", "t", " ", "d", "e", "c", "o", "d", "e", " ", "b", "y", "t", "e">>

S_Expecting == <<"E", "x", "p", "e", "c", "t", "i", "n", "g">>

\* The nesting depth at which json.loads raises RecursionError: the
\* interpreter's recursion limit (1000 by default), scaled down.
RecursionLimit == 3

JsonWhitespace == {" ", "\t", "\n", "\r"}

\* The first position from i that holds no JSON whitespace.
SkipWs(s, i) == i + Span(From(s, i), JsonWhitespace)

JsonOk(value, next) == [kind |-> "value", value |-> value, next |-> next]

JsonError == Raise("JSONDecodeError", S_Expecting)

\* json.loads on texts of arrays, the empty object and unsigned integers:
\* the value that starts at position i, nested depth deep.  A text with a
\* string, a literal, a sign or a fraction is outside what is modelled.
RECURSIVE JsonValue(_, _, _)
RECURSIVE JsonItems(_, _, _, _)
JsonValue(s, i, depth) ==
    IF i > Len(s) THEN JsonError
    ELSE IF s[i] \in {"[", "{"} /\ depth >= RecursionLimit
    THEN Raise("RecursionError", S_MaxRecursion)
    ELSE IF s[i] = "["
    THEN LET j == SkipWs(s, i + 1)
         IN  IF j <= Len(s) /\ s[j] = "]"
             THEN JsonOk([t |-> "list", items |-> <<>>], j + 1)
             ELSE JsonItems(s, j, depth + 1, <<>>)
    ELSE IF s[i] = "{"
    THEN LET j == SkipWs(s, i + 1)
         IN  IF j <= Len(s) /\ s[j] = "}"
             THEN JsonOk([t |-> "dict", items |-> <<>>], j + 1)
             ELSE JsonError
    ELSE IF s[i] \in Range(Digits)
    THEN LET n == IF s[i] = "0" THEN 1 ELSE Span(From(s, i), Range(Digits))
         IN  JsonOk([t |-> "int", items |-> SubSeq(s, i, i + n - 1)], i + n)
    ELSE JsonError

\* The rest of an array whose items so far are acc, the next one at i.
JsonItems(s, i, depth, acc) ==
    LET v == JsonValue(s, i, depth)
    IN  IF v.kind = "raise" THEN v
        ELSE LET j == SkipWs(s, v.next)
             IN  IF j <= Len(s) /\ s[j] = "]"
                 THEN JsonOk([t |-> "list", items |-> Append(acc, v.value)], j + 1)
                 ELSE IF j <= Len(s) /\ s[j] = ","
                 THEN JsonItems(s, SkipWs(s, j + 1), depth, Append(acc, v.value))
                 ELSE JsonError

JsonLoads(s) ==
    LET v == JsonValue(s, SkipWs(s, 1), 0)
    IN  IF v.kind = "raise" THEN v
        ELSE IF SkipWs(s, v.next) <= Len(s) THEN JsonError
        ELSE v

\* The dict returned by the handler of "except Exception as e".
Failure(message) ==
    [returncode |-> -1,
     stdout     |-> <<>>,
     stderr     |-> message,
     success    |-> FALSE,
     data       |-> None,
     error      |-> Some(message)]

\* run_glab_command, given what became of the process: it was not started
\* (create_subprocess_exec raised, message being str(e)), or it exited with
\* returncode having written the bytes stdout and stderr.
RunGlab(process) ==
    IF ~process.started THEN Failure(process.message)
    ELSE LET out == Decode(process.stdout)
             err == Decode(process.stderr)
         IN  IF out = None \/ err = None THEN Failure(S_CannotDecode)
             ELSE LET result == [returncode |-> process.returncode,
                                 stdout     |-> Val(out),
                                 stderr     |-> Val(err),
                                 success    |-> process.returncode = 0,
                                 data       |-> None,
                                 error      |-> None]
                      stripped == StripText(Val(out))
                  IN  IF /\ result.success
                         /\ stripped # <<>>
                         /\ stripped[1] \in {"[", "{"}
                      THEN LET loaded == JsonLoads(Val(out))
                           IN  IF loaded.kind = "value"
                               THEN [result EXCEPT !.data = Some(loaded.value)]
                               ELSE IF loaded.exc = "JSONDecodeError"
                               THEN result
                               ELSE Failure(loaded.message)
                      ELSE result

(***************************************************************************)
(* run_glab_command on its own: what becomes of the process is chosen, and *)
(* the result built from it.                                                *)
(***************************************************************************)
S_LoggedIn == <<"L", "o", "g", "g", "e", "d", " ", "i", "n">>

S_Unauthorized ==
    <<"4", "0", "1", " ", "U", "n", "a", "u", "t", "h", "o", "r", "i", "z", "e", "d">>

\* n opening brackets, 1, n closing brackets
Nested(n) == [i \in 1..n |-> "["] \o <<"1">> \o [i \in 1..n |-> "]"]

\* What the process may write to its standard output.
StdoutChoices ==
    { <<>>,
      Encode(S_LoggedIn),
      Encode(<<" ", "[", "1", ",", " ", "2", "]", "\n">>),
      Encode(Nested(RecursionLimit - 1)),
      Encode(Nested(RecursionLimit + 1)),
      Encode(<<"{", "}">>),
      Encode(<<"[", "1">>),
      Encode(<<"{", "x">>),
      <<255>>,
      <<195, 169>>,
      <<91, 195>> }

StderrChoices == { <<>>, Encode(S_Unauthorized), <<255>> }

ReturnCodes == {0, 1, 2}

Started(returncode, stdout, stderr) ==
    [started |-> TRUE, message |-> <<>>, returncode |-> returncode,
     stdout |-> stdout, stderr |-> stderr]

CannotStart(message) ==
    [started |-> FALSE, message |-> message, returncode |-> 0,
     stdout |-> <<>>, stderr |-> <<>>]

Processes ==
    { Started(returncode, stdout, stderr) :
          returncode \in ReturnCodes, stdout \in StdoutChoices, stderr \in StderrChoices }
        \cup { CannotStart(S_NoSuchFile) }

RunInit ==
    /\ CacheInit
    /\ marshal = MarshalIdle
    /\ parse = ParseIdle
    /\ synth = SynthIdle
    /\ cmdhelp = HelpIdle
    /\ tool = [p \in Procs |-> ToolIdle]
    /\ hung = {}
    /\ \E process \in Processes : proc = [outcome |-> Some(process), result |-> None]

RunEnds ==
    /\ proc.result = None
    /\ proc' = [proc EXCEPT !.result = Some(RunGlab(Val(proc.outcome)))]
    /\ UNCHANGED <<cacheVars, marshal, parse, synth, cmdhelp, tool, hung>>

SpecRun == RunInit /\ [][RunEnds]_vars

(***************************************************************************)
(* Properties of run_glab_command (SpecRun).                               *)
(***************************************************************************)
\* C13: run_glab_command returns a result for whatever became of the
\* process: for a process that started and exited with the code c the result
\* has returncode = c and success = (c = 0); for a process that could not be
\* started it has success = FALSE, returncode = -1, an empty stdout and the
\* diagnostic in error.
C13_ExitCodeReported ==
    proc.result # None =>
        LET process == Val(proc.outcome)
            result  == Val(proc.result)
        IN  /\ process.started =>
                   /\ result.returncode = process.returncode
                   /\ result.success = (process.returncode = 0)
            /\ ~process.started =>
                   /\ result.success = FALSE
                   /\ result.returncode = -1
                   /\ result.stdout = <<>>
                   /\ result.error = Some(process.message)

\* C16: when the process started and what it wrote is text, data is present
\* only if the process succeeded and the stripped stdout begins with "[" or
\* "{"; and whether json.loads was skipped, returned or failed, returncode,
\* stdout, stderr and success are those of the process.
C16_DecodeBestEffort ==
    LET process == Val(proc.outcome)
        result  == Val(proc.result)
    IN  ( /\ proc.result # None
          /\ process.started
          /\ Decode(process.stdout) # None
          /\ Decode(process.stderr) # None ) =>
            /\ result.data # None =>
                   /\ result.success
                   /\ StripText(result.stdout) # <<>>
                   /\ StripText(result.stdout)[1] \in {"[", "{"}
                   /\ JsonLoads(result.stdout).kind = "value"
            /\ result.returncode = process.returncode
            /\ result.stdout = Val(Decode(process.stdout))
            /\ result.stderr = Val(Decode(process.stderr))
            /\ result.success = (process.returncode = 0)

(***************************************************************************)
(* The loop of get_command_help on its own: the lines of a help text are   *)
(* chosen and the loop takes them one at a time.                            *)
(***************************************************************************)
MaxLines == 4

\* The locals of get_command_help before the loop.
HelpStart ==
    [description |-> <<>>, usage |-> <<>>, flags |-> <<>>, subcommands |-> <<>>,
     current_section |-> "none"]

S_UseGlab == S_UseQuote \o S_glab \o <<"-", "-", "h", "e", "l", "p", "\"">>

S_FlagLine == <<" ", " ", "-", "-", "p", "a", "g", "e", " ", " ", "N">>

S_SubLine == <<" ", " ", "l", "i", "s", "t", " ", " ", "A", "l", "l">>

HelpLineChoices ==
    { S_Flags,
      <<" ", " ">> \o S_GlobalFlags,
      S_Commands,
      S_Examples,
      S_UseGlab,
      S_FlagLine,
      S_SubLine,
      <<>> }

HelpTexts == UNION { [1..n -> HelpLineChoices] : n \in 1..MaxLines }

HelpInit ==
    /\ CacheInit
    /\ marshal = MarshalIdle
    /\ parse = ParseIdle
    /\ synth = SynthIdle
    /\ proc = ProcIdle
    /\ tool = [p \in Procs |-> ToolIdle]
    /\ hung = {}
    /\ \E lines \in HelpTexts : cmdhelp = [lines |-> lines, i |-> 1, st |-> Some(HelpStart)]

\* One iteration of "for line in lines".
HelpLine ==
    /\ cmdhelp.i <= Len(cmdhelp.lines)
    /\ cmdhelp' = [cmdhelp EXCEPT
                       !.i = @ + 1,
                       !.st = Some(ParseHelpLine(S_mr, Val(cmdhelp.st),
                                                 cmdhelp.lines[cmdhelp.i]))]
    /\ UNCHANGED <<cacheVars, marshal, parse, synth, proc, tool, hung>>

SpecHelp == HelpInit /\ [][HelpLine]_vars

(***************************************************************************)
(* Properties of the loop of get_command_help (SpecHelp).                  *)
(***************************************************************************)
FlagsHeaders == {S_Flags, S_Options, S_GlobalFlags}

SubcommandsHeaders == {S_AvailableCommands, S_Commands}

ExitsSection(line) == StartsWith(line, S_Examples) \/ StartsWith(line, S_UseQuote)

\* The section after a line, by the state machine of the claim.
SectionAfter(section, line) ==
    IF Strip(line) \in FlagsHeaders THEN "flags"
    ELSE IF Strip(line) \in SubcommandsHeaders THEN "subcommands"
    ELSE IF ExitsSection(Strip(line)) THEN "none"
    ELSE section

\* C19: the loop starts in the section none with nothing recorded; each
\* line moves the section as the state machine says (flags header -> flags,
\* subcommands header -> subcommands, "Examples:" or 'Use "' -> none, any
\* other line -> unchanged); a line adds a flag only when the section before
\* it is flags and a subcommand only when it is subcommands, a header adds
\* nothing, and what a line adds is appended at the end of its list.
C19_SectionMachine ==
    /\ [](cmdhelp.st # None /\ cmdhelp.i = 1 =>
              /\ Val(cmdhelp.st).current_section = "none"
              /\ Val(cmdhelp.st).flags = <<>>
              /\ Val(cmdhelp.st).subcommands = <<>>)
    /\ [][cmdhelp' # cmdhelp =>
              LET line   == cmdhelp.lines[cmdhelp.i]
                  before == Val(cmdhelp.st)
                  after  == Val(cmdhelp'.st)
              IN  /\ after.current_section = SectionAfter(before.current_section, line)
                  /\ after.flags # before.flags =>
                         /\ before.current_section = "flags"
                         /\ after.current_section = "flags"
                         /\ Len(after.flags) = Len(before.flags) + 1
                         /\ SubSeq(after.flags, 1, Len(before.flags)) = before.flags
                         /\ Contains(line, after.flags[Len(after.flags)].name)
                  /\ after.subcommands # before.subcommands =>
                         /\ before.current_section = "subcommands"
                         /\ after.current_section = "subcommands"
                         /\ Len(after.subcommands) = Len(before.subcommands) + 1
                         /\ SubSeq(after.subcommands, 1, Len(before.subcommands))
                                = before.subcommands
                         /\ Contains(line, after.subcommands[Len(after.subcommands)].name)
                  /\ before.current_section = "none" =>
                         /\ after.flags = before.flags
                         /\ after.subcommands = before.subcommands
         ]_vars

\* The loop has taken a flags header, a flag line, an "Examples:" line and
\* the same flag line again: the flag is recorded once.
C19_Witness ==
    /\ cmdhelp.lines = <<S_Flags, S_FlagLine, S_Examples, S_FlagLine>>
    /\ cmdhelp.i = 5
    /\ Len(Val(cmdhelp.st).flags) = 1
    /\ Val(cmdhelp.st).current_section = "none"

(***************************************************************************)
(* handle_call_tool.  The response is kept as response_parts, the list the *)
(* handler joins into its text; a part is named for the sentence it holds  *)
(* and carries the text or the decoded value the handler puts into it (the *)
(* layout of the value by json.dumps is not modelled).                      *)
(***************************************************************************)
S_authentication == <<"a", "u", "t", "h", "e", "n", "t", "i", "c", "a", "t", "i", "o", "n">>

S_401 == <<"4", "0", "1">>

S_not_found == <<"n", "o", "t", " ", "f", "o", "u", "n", "d">>

S_404 == <<"4", "0", "4">>

S_permission == <<"p", "e", "r", "m", "i", "s", "s", "i", "o", "n">>

S_403 == <<"4", "0", "3">>

S_no_repository == <<"n", "o", " ", "r", "e", "p", "o", "s", "i", "t", "o", "r", "y">>

S_UnknownTool == <<"U", "n", "k", "n", "o", "w", "n", " ", "t", "o", "o", "l", ":", " ">>

S_ErrorExecuting ==
    <<"E", "r", "r", "o", "r", " ", "e", "x", "e", "c", "u", "t", "i", "n", "g", " ">>

S_general == <<"g", "e", "n", "e", "r", "a", "l">>

S_issue == <<"i", "s", "s", "u", "e">>

S_ci == <<"c", "i">>

S_api == <<"a", "p", "i">>

Part(part, text, data) == [part |-> part, text |-> text, data |-> data]

\* Fault: the markers are looked for in stderr as written.
Tip_CaseSensitive(stderr) ==
    LET stderr_lower == stderr
    IN  IF Contains(stderr_lower, S_authentication) \/ Contains(stderr_lower, S_401)
        THEN <<Part("tip_authentication", <<>>, None)>>
        ELSE IF Contains(stderr_lower, S_not_found) \/ Contains(stderr_lower, S_404)
        THEN <<Part("tip_not_found", <<>>, None)>>
        ELSE IF Contains(stderr_lower, S_permission) \/ Contains(stderr_lower, S_403)
        THEN <<Part("tip_permission", <<>>, None)>>
        ELSE IF Contains(stderr_lower, S_no_repository)
        THEN <<Part("tip_no_repository", <<>>, None)>>
        ELSE <<>>

\* The suggestion appended after the stderr of a failed command.
Tip(stderr) ==
    LET stderr_lower == Lower(stderr)
    IN  IF Contains(stderr_lower, S_authentication) \/ Contains(stderr_lower, S_401)
        THEN <<Part("tip_authentication", <<>>, None)>>
        ELSE IF Contains(stderr_lower, S_not_found) \/ Contains(stderr_lower, S_404)
        THEN <<Part("tip_not_found", <<>>, None)>>
        ELSE IF Contains(stderr_lower, S_permission) \/ Contains(stderr_lower, S_403)
        THEN <<Part("tip_permission", <<>>, None)>>
        ELSE IF Contains(stderr_lower, S_no_repository)
        THEN <<Part("tip_no_repository", <<>>, None)>>
        ELSE <<>>

\* response_parts for the result of run_glab_command.
FormatResponse(result) ==
    IF result.success
    THEN ( IF result.data # None
           THEN <<Part("executed", <<>>, None), Part("json_output", <<>>, result.data)>>
           ELSE IF result.stdout # <<>>
           THEN <<Part("executed", <<>>, None), Part("output", result.stdout, None)>>
           ELSE <<Part("executed_no_output", <<>>, None)>> )
         \o ( IF result.stderr # <<>>
              THEN <<Part("warnings", result.stderr, None)>>
              ELSE <<>> )
    ELSE <<Part("failed", IntStr(result.returncode), None)>>
         \o ( IF result.stderr # <<>>
              THEN <<Part("error", result.stderr, None)>> \o Tip(result.stderr)
              ELSE <<>> )
         \o ( IF result.stdout # <<>>
              THEN <<Part("output", result.stdout, None)>>
              ELSE <<>> )
         \o ( IF result.error # None
              THEN <<Part("exception", Val(result.error), None)>>
              ELSE <<>> )
         \o <<Part("see_help", <<>>, None)>>

\* get_usage_examples(topic): the key of the text that is returned.
GetUsageExamples(topic) ==
    IF topic \in {S_general, S_mr, S_issue, S_ci, S_repo, S_api} THEN topic ELSE S_general

\* str(KeyError(key))
KeyError(key) == Raise("KeyError", <<"'">> \o key \o <<"'">>)

\* The handler is about to await run_glab_command(argv, cwd).
Launch(argv, cwd) == [kind |-> "await", argv |-> argv, cwd |-> cwd]

\* handle_call_tool from its entry to its first await, its return or the
\* exception it raises inside the try, for a name other than glab_discover.
\* The values of arguments have the types of the published schemas.
CallEntry(name, arguments0) ==
    LET arguments == IF arguments0 = None THEN EmptyDict ELSE Val(arguments0)
        cwd == IF DictHas(arguments, "cwd") THEN Some(DictGet(arguments, "cwd")) ELSE None
    IN  IF name = S_glab_raw
        THEN IF ~DictHas(arguments, "args") THEN KeyError(S_args)
             ELSE Launch(DictGet(arguments, "args"), cwd)
        ELSE IF name = S_glab_help
        THEN IF ~DictHas(arguments, "command") THEN KeyError(S_command)
             ELSE Launch(SplitWords(DictGet(arguments, "command")) \o <<S_help>>, None)
        ELSE IF name = S_glab_examples
        THEN [kind  |-> "return",
              parts |-> <<Part("examples",
                               GetUsageExamples(IF DictHas(arguments, "topic")
                                                THEN DictGet(arguments, "topic")
                                                ELSE S_general),
                               None)>>]
        ELSE IF StartsWith(name, S_glab_)
        THEN Launch(BuildCommandArgs(ReplaceChar(From(name, 6), "_", "-"), arguments), cwd)
        ELSE Raise("ValueError", S_UnknownTool \o name)

\* Fault: the exception leaves the handler.
Caught_Propagates(c, e) == [c EXCEPT !.pc = "done", !.raised = TRUE, !.failed = TRUE]

\* except Exception as e: the handler answers with the text of e.
Caught(c, e) ==
    [c EXCEPT !.pc = "done",
              !.failed = TRUE,
              !.response = Some(<<Part("error_executing",
                                       S_ErrorExecuting \o c.name \o <<":", " ">> \o e.message,
                                       None)>>)]

\* The names handle_list_tools would publish for the stored snapshot.
Published(cache) ==
    IF cache = None
    THEN {S_glab_raw, S_glab_help, S_glab_discover, S_glab_examples}
    ELSE Range(ListedTools(Val(cache)))

\* handle_call_tool(name, arguments) is invoked by a caller whose previous
\* call is c0, and runs to its first await or to its return.
CallStart(c0, name, arguments, cache, hanging) ==
    LET e == CallEntry(name, arguments)
        c == [ToolIdle EXCEPT !.name = name,
                              !.arguments = arguments,
                              !.listed = name \in Published(cache),
                              !.earlier = c0.failed,
                              !.during = hanging]
    IN  IF e.kind = "raise" THEN Caught(c, e)
        ELSE IF e.kind = "return" THEN [c EXCEPT !.pc = "done", !.response = Some(e.parts)]
        ELSE [c EXCEPT !.pc = "awaiting",
                       !.argv = Some(e.argv),
                       !.cwd = e.cwd,
                       !.launched = 1]

\* run_glab_command returns result to the handler, which formats its answer.
CallEnd(c, result) ==
    [c EXCEPT !.pc = "done",
              !.result = Some(result),
              !.failed = ~result.success,
              !.response = Some(FormatResponse(result))]

(***************************************************************************)
(* The server handling calls.  A caller has one request in flight at a     *)
(* time, list-tools or a tool call; the process a call waits for ends with  *)
(* one of the outcomes below, or never ends.                                *)
(***************************************************************************)
S_glab_mr == <<"g", "l", "a", "b", "_", "m", "r">>

S_glab_bogus == <<"g", "l", "a", "b", "_", "b", "o", "g", "u", "s">>

S_bogus == <<"b", "o", "g", "u", "s">>

S_auth == <<"a", "u", "t", "h">>

S_status == <<"s", "t", "a", "t", "u", "s">>

S_mr_list == <<"m", "r", " ", "l", "i", "s", "t">>

S_tmp == <<"/", "t", "m", "p">>

S_AuthFailed ==
    <<"A", "U", "T", "H", "E", "N", "T", "I", "C", "A", "T", "I", "O", "N", " ",
      "f", "a", "i", "l", "e", "d">>

S_NotFound == <<"4", "0", "4", " ", "N", "o", "t", " ", "F", "o", "u", "n", "d">>

\* Every name but glab_discover, which is HandleDiscover.
ToolNames == {S_glab_raw, S_glab_help, S_glab_examples, S_glab_mr, S_glab_bogus, S_bogus}

RawArguments ==
    <<[k |-> "args", v |-> <<S_auth, S_status>>], [k |-> "cwd", v |-> S_tmp]>>

CommandArguments ==
    <<[k |-> "command", v |-> S_mr_list], [k |-> "topic", v |-> S_mr],
      [k |-> "subcommand", v |-> S_list], [k |-> "format", v |-> S_json]>>

ArgumentChoices == {None, Some(EmptyDict), Some(RawArguments), Some(CommandArguments)}

ToolProcesses ==
    { CannotStart(S_NoSuchFile),
      Started(0, Encode(S_LoggedIn), <<>>),
      Started(0, Encode(<<"[", "1", "]">>), Encode(S_Unauthorized)),
      Started(1, <<>>, Encode(S_Unauthorized)),
      Started(1, <<>>, Encode(S_AuthFailed)),
      Started(1, Encode(S_LoggedIn), Encode(S_NotFound)),
      Started(2, <<255>>, Encode(S_Unauthorized)) }

\* The process of a call made while callers wait for hanging processes.
HangProcesses == { Started(0, Encode(S_LoggedIn), <<>>) }

\* What run_glab_command returns for each outcome of the process.
Results == [process \in ToolProcesses \cup HangProcesses |-> RunGlab(process)]

\* Fault: waiting for a process blocks the server, so that no call is
\* resumed while some process hangs.
CanResume_Blocking(p) == hung = {}

\* await process.communicate(): the call is resumed when its own process
\* has ended, whatever the other calls wait for.
CanResume(p) == p \notin hung

Busy(p) == tool[p].pc = "awaiting" \/ call[p].pc \in {"top_help", "cmd_help"}

\* handle_call_tool is invoked with a name other than glab_discover.
HandleCallTool(p, names, choices) ==
    /\ ~Busy(p)
    /\ \E name \in names, arguments \in choices :
           tool' = [tool EXCEPT ![p] = CallStart(tool[p], name, arguments,
                                                 command_cache, hung)]
    /\ UNCHANGED <<cacheVars, marshal, parse, synth, proc, cmdhelp, hung>>

\* The process a tool call waits for ends.
ProcessEnds(p, processes) ==
    /\ tool[p].pc = "awaiting"
    /\ CanResume(p)
    /\ \E process \in processes :
           tool' = [tool EXCEPT ![p] = CallEnd(tool[p], Results[process])]
    /\ UNCHANGED <<cacheVars, marshal, parse, synth, proc, cmdhelp, hung>>

\* The process a call waits for turns out never to end.
Hangs(p) ==
    /\ Busy(p)
    /\ p \notin hung
    /\ hung' = hung \cup {p}
    /\ UNCHANGED <<cacheVars, marshal, parse, synth, proc, cmdhelp, tool>>

ListToolsCall(p) == ~Busy(p) /\ HandleListTools(p)

DiscoverCall(p) == ~Busy(p) /\ HandleDiscover(p)

TopHelpReturns(p) == CanResume(p) /\ TopHelpEnds(p)

CommandHelpReturns(p) == CanResume(p) /\ CommandHelpEnds(p)

(***************************************************************************)
(* One caller, every tool name, every arguments value and every outcome of *)
(* the process: the handlers as functions of their input.                   *)
(***************************************************************************)
Caller == 1

NextCall ==
    \/ HandleCallTool(Caller, ToolNames, ArgumentChoices)
    \/ ProcessEnds(Caller, ToolProcesses)
    \/ ListToolsCall(Caller)
    \/ DiscoverCall(Caller)
    \/ TopHelpReturns(Caller)
    \/ CommandHelpReturns(Caller)

SpecCall == Init /\ [][NextCall]_vars

(***************************************************************************)
(* Concurrent callers, any of whose processes may hang.                     *)
(***************************************************************************)
HangNames == {S_glab_raw, S_glab_help}

HangArguments == {Some(RawArguments \o CommandArguments)}


\* The snapshot main() stores before it serves: "glab --help" printed
\* TopText1 and the help of each command CmdText1.
PrewarmedCommands ==
    LET names == ParseTopLevel(TopText1)
    IN  [i \in 1..Len(names) |->
            [k |-> names[i],
             v |-> GetCommandHelp(names[i], RunGlabCommand(Exited(0, CmdText1, <<>>)))]]

\* The server starts to serve with the snapshot of main() stored.
HangInit ==
    /\ command_cache = Some(PrewarmedCommands)
    /\ cache_timestamp = Some(0)
    /\ now = 0
    /\ call = [p \in Procs |-> IdleCall]
    /\ served = {}
    /\ marshal = MarshalIdle
    /\ parse = ParseIdle
    /\ AuxIdle

NextHang ==
    \/ \E p \in Procs : HandleCallTool(p, HangNames, HangArguments)
    \/ \E p \in Procs : ProcessEnds(p, HangProcesses)
    \/ \E p \in Procs : Hangs(p)
    \/ \E p \in Procs : ListToolsCall(p)

SpecHang == HangInit /\ [][NextHang]_vars

\* A process that does not hang ends.
SpecHangFair ==
    /\ SpecHang
    /\ \A p \in Procs : WF_vars(ProcessEnds(p, HangProcesses))

(***************************************************************************)
(* Properties of the handlers (SpecCall).                                  *)
(***************************************************************************)
HasPart(c, part) == \E i \in 1..Len(Val(c.response)) : Val(c.response)[i].part = part

\* The answer to a name that is not recognized.
UnknownToolFailure(c) ==
    c.response = Some(<<Part("error_executing",
                             S_ErrorExecuting \o c.name \o <<":", " ">>
                                 \o S_UnknownTool \o c.name,
                             None)>>)

\* C14: a call whose name is neither a reserved tool nor the tool name of a
\* command in the stored snapshot ends at once with the unrecognized-tool
\* failure: no process is launched for it and the snapshot and its timestamp
\* stay as they are.
C14_UnknownRejected ==
    [][\A p \in Procs :
           (tool'[p] # tool[p] /\ ~tool'[p].listed)
               => /\ tool'[p].pc = "done"
                  /\ tool'[p].launched = 0
                  /\ UnknownToolFailure(tool'[p])
                  /\ command_cache' = command_cache
                  /\ cache_timestamp' = cache_timestamp
      ]_vars

\* C15: every tool call that has ended has answered with a non-empty text
\* and raised nothing, whatever its name, its arguments and the outcome of
\* its process, also when the caller's previous call failed; every
\* list-tools request that has ended lists glab_raw, and every glab_discover
\* that has ended has answered with its confirmation.
C15_NothingFatal ==
    \A p \in Procs :
        /\ tool[p].pc = "done" =>
               /\ ~tool[p].raised
               /\ tool[p].response # None
               /\ Val(tool[p].response) # <<>>
        /\ call[p].pc = "done" =>
               /\ call[p].response # None
               /\ call[p].name = "list_tools" =>
                      S_glab_raw \in Range(Val(call[p].response).tools)
               /\ call[p].name = "glab_discover" =>
                      Val(call[p].response).text = S_Rediscovered

\* A command has succeeded for a caller whose previous call failed for a
\* missing required argument.
C15_Witness ==
    \E p \in Procs :
        /\ tool[p].pc = "done"
        /\ tool[p].earlier
        /\ ~tool[p].failed
        /\ tool[p].result # None
        /\ HasPart(tool[p], "executed")

HasAuthMarker(stderr) ==
    \/ Contains(Lower(stderr), S_authentication)
    \/ Contains(Lower(stderr), S_401)

\* C18, as stated: every call that ran a command whose stderr holds an
\* authentication marker, in any case, has the authentication hint in its
\* response.
C18_HintWheneverMarker ==
    \A p \in Procs :
        ( /\ tool[p].pc = "done"
          /\ tool[p].result # None
          /\ HasAuthMarker(Val(tool[p].result).stderr) )
            => HasPart(tool[p], "tip_authentication")

\* C18, amended: every call that ran a command which failed (success is
\* false in its result) and whose stderr, as the result holds it, has
\* "authentication" or "401" in any case, has the authentication hint in its
\* response; a call whose command succeeded has no hint, its stderr being
\* given as warnings.
C18_HintOnFailure ==
    \A p \in Procs :
        (tool[p].pc = "done" /\ tool[p].result # None) =>
            /\ ( /\ ~Val(tool[p].result).success
                 /\ HasAuthMarker(Val(tool[p].result).stderr) )
                   => HasPart(tool[p], "tip_authentication")
            /\ Val(tool[p].result).success =>
                   /\ ~HasPart(tool[p], "tip_authentication")
                   /\ Val(tool[p].result).stderr # <<>> => HasPart(tool[p], "warnings")

\* A command has failed with "AUTHENTICATION failed" on its stderr and the
\* response has the hint.
C18_Witness ==
    \E p \in Procs :
        /\ tool[p].pc = "done"
        /\ tool[p].result # None
        /\ ~Val(tool[p].result).success
        /\ Val(tool[p].result).stderr = S_AuthFailed
        /\ HasPart(tool[p], "tip_authentication")

(***************************************************************************)
(* Properties of concurrent calls (SpecHang, SpecHangFair).                *)
(***************************************************************************)
\* C20: a tool call that waits for a process which does not hang ends,
\* whichever other calls hang; and a list-tools request made while a fresh
\* snapshot is stored ends in the step that makes it.
C20_HangBlocksOnlyItself ==
    /\ \A q \in Procs :
           (tool[q].pc = "awaiting" /\ q \notin hung)
               ~> (tool[q].pc = "done" \/ q \in hung)
    /\ [][\A q \in Procs :
              ( /\ FreshSnapshotStored
                /\ call[q].pc \in {"idle", "done"}
                /\ call'[q] # call[q] )
                  => /\ call'[q].pc = "done"
                     /\ call'[q].launched = 0
         ]_vars

\* A raw or help call made while another caller's process was hanging has
\* ended, and that process still hangs.
C20_Witness ==
    \E p, q \in Procs :
        /\ p # q
        /\ p \in hung
        /\ Busy(p)
        /\ p \in tool[q].during
        /\ tool[q].pc = "done"
        /\ tool[q].result # None

(***************************************************************************)
(* Tool names there and back: a snapshot is stored whose commands are the  *)
(* ones discover_glab_commands parses from a top-level help text, the       *)
(* tools are listed, and a tool is called by the name list-tools gives it.  *)
(***************************************************************************)
MaxTrip == 2

S_ci_cd_u == <<"c", "i", "_", "c", "d">>

S_help_name == <<"h", "e", "l", "p">>

S_raw == <<"r", "a", "w">>

\* The names before the colon on the lines of the commands section.
TripNames == {S_mr, S_ci_cd, S_ci_cd_u, S_help_name, S_raw}

TripListings ==
    UNION { [1..n -> { [name |-> c, convention |-> "colon"] : c \in TripNames }] :
                n \in 1..MaxTrip }

\* commands[command] = cmd_help for each command of the loop, in order; the
\* help of each command could not be had, which leaves the generic entry.
RECURSIVE SnapshotOf(_, _)
SnapshotOf(names, i) ==
    IF i = 0 THEN EmptyDict
    ELSE DictSet(SnapshotOf(names, i - 1), names[i], FallbackInfo(names[i]))

\* The server serves with the snapshot discovered from a help text stored.
TripInit ==
    /\ \E listing \in TripListings :
           LET help_text == LayOut(S_AvailableCommands, listing)
               commands == ParseTopLevel(help_text)
           IN  /\ parse = [listing   |-> listing,
                           help_text |-> help_text,
                           commands  |-> Some(commands)]
               /\ command_cache = Some(SnapshotOf(commands, Len(commands)))
    /\ cache_timestamp = Some(0)
    /\ now = 0
    /\ call = [p \in Procs |-> IdleCall]
    /\ served = {}
    /\ marshal = MarshalIdle
    /\ AuxIdle

\* A tool is called by one of the names list-tools publishes.
CallPublished(p) == HandleCallTool(p, Published(command_cache), ArgumentChoices)

NextTrip ==
    \/ ListToolsCall(Caller)
    \/ CallPublished(Caller)
    \/ ProcessEnds(Caller, HangProcesses)

SpecTrip == TripInit /\ [][NextTrip]_vars

\* The commands of the stored snapshot.
SnapshotCommands == Range(DictKeys(Val(command_cache)))

\* C21: for every command c of the stored snapshot, a call made with the
\* tool name list-tools publishes for c has launched a process whose first
\* argument is c.
C21_NameRoundTrip ==
    \A p \in Procs : \A c \in SnapshotCommands :
        (tool[p].pc # "idle" /\ tool[p].name = ToolName(c))
            => /\ tool[p].argv # None
               /\ Val(tool[p].argv) # <<>>
               /\ Val(tool[p].argv)[1] = c

(***************************************************************************)
(* Flag names there and back: the help of a command is parsed, its schema  *)
(* synthesized, and a request that names one property of the flag map is    *)
(* marshalled by build_command_args.                                        *)
(***************************************************************************)
MaxFlagLines == 2

S_force == <<"-", "-", "f", "o", "r", "c", "e">>

\* The flags as the help text writes them.
WrittenFlags == {S_dry_run, S_dry_run_u, S_f_short, S_force, S_f_short \o <<",", " ">> \o S_force}

\* "  --flag  N": a line of the flags section.
FlagLines == { <<" ", " ">> \o f \o <<" ", " ", "N">> : f \in WrittenFlags }

FlagTexts == { <<S_Flags>> \o body : body \in UNION { [1..n -> FlagLines] : n \in 1..MaxFlagLines } }

FlagInit ==
    /\ CacheInit
    /\ marshal = MarshalIdle
    /\ parse = ParseIdle
    /\ synth = SynthIdle
    /\ proc = ProcIdle
    /\ tool = [p \in Procs |-> ToolIdle]
    /\ hung = {}
    /\ \E lines \in FlagTexts : cmdhelp = [lines |-> lines, i |-> 1, st |-> Some(HelpStart)]

\* The return of get_command_help after its loop.
InfoOf(command, st) ==
    [name        |-> command,
     description |-> IF st.description # <<>> THEN st.description
                     ELSE FallbackInfo(command).description,
     usage       |-> IF st.usage # <<>> THEN st.usage ELSE FallbackInfo(command).usage,
     flags       |-> st.flags,
     subcommands |-> st.subcommands]

\* get_command_help returns and the schema of its CommandInfo is synthesized.
SynthesizeParsed ==
    /\ cmdhelp.i > Len(cmdhelp.lines)
    /\ synth.schema = None
    /\ LET command_info == InfoOf(S_mr, Val(cmdhelp.st))
       IN  synth' = [command_info |-> Some(command_info),
                     schema       |-> Some(CreateDynamicToolSchema(command_info))]
    /\ UNCHANGED <<cacheVars, marshal, parse, proc, cmdhelp, tool, hung>>

\* A request gives one property of the flag map a non-empty value, and
\* build_command_args marshals it.
SupplyFlag ==
    /\ synth.schema # None
    /\ marshal.args = None
    /\ \E i \in 1..Len(FlagMap), value \in {S_5, S_json} :
           LET arguments == <<[k |-> "common_flags",
                               v |-> <<[k |-> FlagMap[i].k, v |-> PyStr(value)]>>]>>
           IN  marshal' = [command   |-> S_mr,
                           arguments |-> arguments,
                           args      |-> Some(BuildCommandArgs(S_mr, arguments))]
    /\ UNCHANGED <<cacheVars, parse, auxVars>>

NextFlag ==
    \/ HelpLine
    \/ SynthesizeParsed
    \/ SupplyFlag

SpecFlag == FlagInit /\ [][NextFlag]_vars

\* The flag map of the marshalled request.
Supplied == DictGet(marshal.arguments, "common_flags")

\* C22: for every flag recorded in the CommandInfo, a request that gives the
\* schema property synthesized for it a non-empty value is marshalled into
\* the flag as the help text writes it, followed by the value.
C22_FlagRoundTrip ==
    marshal.args # None =>
        LET flags == Val(synth.command_info).flags
            args  == Val(marshal.args)
        IN  \A i \in 1..Len(flags) :
                DictHas(Supplied, FlagProperty(flags[i].name)) =>
                    \E j \in 1..(Len(args) - 1) :
                        /\ args[j] = flags[i].name
                        /\ args[j + 1] = Str(DictGet(Supplied, FlagProperty(flags[i].name)))

(***************************************************************************)
(* The order of rebuilds (Spec).                                            *)
(***************************************************************************)
\* The rebuild of caller p ends in this step and assigns the globals.
Stores(p) ==
    /\ Rebuilding(p)
    /\ call'[p].pc = "done"
    /\ Val(call'[p].help_result).success

\* The rebuild glab_discover forced for caller q has ended and assigned the
\* globals.
ForcedRebuildStored(q) ==
    /\ call[q].name = "glab_discover"
    /\ call[q].pc = "done"
    /\ Val(call[q].help_result).success

\* C23: while a timestamp is stored it never decreases, and a rebuild that
\* started at an earlier time than a glab_discover does not assign the
\* globals once the rebuild that glab_discover forced has assigned them.
C23_NoOlderOverwrite ==
    [][/\ (cache_timestamp # None /\ cache_timestamp' # None)
              => Val(cache_timestamp') >= Val(cache_timestamp)
       /\ \A p, q \in Procs :
              ( /\ p # q
                /\ ForcedRebuildStored(q)
                /\ Rebuilding(p)
                /\ call[p].current_time < call[q].current_time )
                  => ~Stores(p)
      ]_vars

=============================================================================
